---- MODULE Spec2Model ----
(***************************************************************************)
(* Model of router-core (src/router-core/src/lib.rs) and of the tray       *)
(* application's query cycle (src/router-tray/src-tauri/src/main.rs).      *)
(*                                                                         *)
(* Conventions.  A Rust String is a sequence of one-character strings.     *)
(* Option<T> is a sequence of length 0 (None) or 1 (Some(x)).  A JSON row  *)
(* is a record whose fields hold what `item.get(k).and_then(as_str)` (or   *)
(* `as_bool`) yields: None when the key is absent, null or of another      *)
(* JSON type, Some(v) otherwise.                                           *)
(***************************************************************************)
EXTENDS Integers, Sequences, FiniteSets, TLC

VARIABLES
    \* -- the reconciliation pipeline (SpecRec)
    rpc,          \* "idle" | "fetched" | "reconciled" | "joined"
    list,         \* the array returned by rci/show/ip/hotspot/host
    clients,      \* Vec<ClientInfo> returned by get_online_clients
    host_ifaces,  \* datalink::interfaces() of this machine
    interfaces,   \* Vec<InterfaceInfo> returned by local_interfaces
    \* -- one KeeneticRouter session and the calls made on it (SpecApi)
    authed,       \* the router accepts the cookie held by the session's jar
    ncalls,       \* calls made so far
    op,           \* the last call: "none", "login", "get_policies", ...
    sent,         \* requests that call sent, in order
    got,          \* what each of them came back with
    lres,         \* what the call's login() returned
    args,         \* the arguments of that call that select the mutation
    result,       \* what the call returned: "Ok" or the RouterError variant
    value,        \* the value inside Ok(..)
    \* -- the tray application's query cycle, build_active_state (SpecCycle)
    routers,      \* AppState.routers, the configured list
    keyring,      \* names whose password the keyring holds
    cpc,          \* "idle" | "loop" | "login" | "policies" | "clients" | "done"
                  \* | "shown"
    candidates,   \* Vec<(RouterInfo, String)>
    ci,           \* position of the loop over candidates
    calls,        \* the calls made on candidates' sessions, with their results
    policies,     \* the local `policies`
    cresult,      \* what build_active_state returned
    menu,         \* the tray menu last set, as its items
    \* -- constructing a session and addressing a request (SpecUrl)
    address_given,     \* the address given to KeeneticRouter::new
    session_base_url,  \* the session's base_url, once constructed
    request_made,      \* the URL of the request made on it
    \* -- the settings commands save_router and delete_router (SpecSave)
    config,            \* routers.json, as the list last written to it
    command,           \* the last command: its arguments and what it returned
    \* -- the tray's event handler and refreshes, and the router (SpecTray)
    hosts,             \* the router's hosts: MAC -> the policy and deny it holds
    mutations,         \* the mutation requests the router was sent, in order
    policy_overrides,  \* AppState.policy_overrides
    threads,           \* thread 0 runs the event handler, the others are
                       \* spawned by schedule_refresh_after
    handler,           \* the event being handled and its locals
    events,            \* events handled so far
    tray_shown         \* the active state the menu last set was built from

recVars == <<rpc, list, clients, host_ifaces, interfaces>>
apiVars == <<authed, ncalls, op, args, sent, got, lres, result, value>>
cycleVars ==
    <<routers, keyring, cpc, candidates, ci, calls, policies, cresult, menu>>
urlVars == <<address_given, session_base_url, request_made>>
saveVars == <<config, command>>
trayVars ==
    <<hosts, mutations, policy_overrides, threads, handler, events, tray_shown>>
vars == <<recVars, apiVars, cycleVars, urlVars, saveVars, trayVars>>

\* what the steps of each part leave alone
outsideRec == <<apiVars, cycleVars, urlVars, saveVars, trayVars>>
outsideApi == <<recVars, cycleVars, urlVars, saveVars, trayVars>>
outsideCycle == <<recVars, urlVars, saveVars, trayVars>>
outsideUrl == <<recVars, apiVars, cycleVars, saveVars, trayVars>>
outsideSave ==
    <<recVars, apiVars, urlVars, cpc, candidates, ci, calls, policies, cresult,
      menu, trayVars>>
outsideTray == <<recVars, apiVars, cycleVars, urlVars, saveVars>>

-----------------------------------------------------------------------------
(* Option<T> *)
None == <<>>
Some(x) == <<x>>
is_none(o) == Len(o) = 0
is_some(o) == Len(o) = 1
unwrap(o) == o[1]

(* Strings *)
UpperChars ==
    <<"A", "B", "C", "D", "E", "F", "G", "H", "I", "J", "K", "L", "M",
      "N", "O", "P", "Q", "R", "S", "T", "U", "V", "W", "X", "Y", "Z">>
LowerChars ==
    <<"a", "b", "c", "d", "e", "f", "g", "h", "i", "j", "k", "l", "m",
      "n", "o", "p", "q", "r", "s", "t", "u", "v", "w", "x", "y", "z">>

\* the lower-case letter of each upper-case letter
LowerOf ==
    [c \in {UpperChars[i] : i \in DOMAIN UpperChars} |->
        LowerChars[CHOOSE i \in DOMAIN UpperChars : UpperChars[i] = c]]

char_to_lowercase(c) == IF c \in DOMAIN LowerOf THEN LowerOf[c] ELSE c

to_lowercase_keep(s) == s

to_lowercase(s) == [i \in DOMAIN s |-> char_to_lowercase(s[i])]

\* Option<&str>::unwrap_or_default: "" for None
unwrap_or_default(o) == IF is_none(o) THEN <<>> ELSE unwrap(o)

-----------------------------------------------------------------------------
(* Bounds and input pools *)
MaxRows == 2

\* One device under two spellings of its MAC, a second device, and the two
\* ways a row can lack a MAC.
DeviceMacs == {Some(<<"a", "a", ":", "0", "1">>), Some(<<"A", "a", ":", "0", "1">>)}
SecondMacs == {Some(<<"b", "b", ":", "0", "2">>)}
NoMacs ==
    { None,                                   \* no "mac" key (or not a string)
      Some(<<>>) }                            \* "mac": ""
MacInputs == DeviceMacs \cup SecondMacs \cup NoMacs

NameInputs == {Some(<<"P", "h", "o", "n", "e">>), Some(<<"T", "V">>)}
IpInputs == {Some("10.0.0.5"), Some("10.0.0.9")}
PolicyInputs == {Some("Policy0"), Some("Policy1")}
DenyInputs == {Some(TRUE), Some(FALSE)}
LinkInputs == {Some("up"), Some("down")}
\* "mws": absent, or an object whose "link" is a string
MwsInputs == {Some([link |-> Some("up")]), Some([link |-> Some("down")])}

BlankRow(m) ==
    [mac |-> m, name |-> None, ip |-> None, policy |-> None,
     deny |-> None, link |-> None, mws |-> None]

\* rows carrying exactly one of the known fields
SingleFieldRows(m) ==
    {[BlankRow(m) EXCEPT !.name = v] : v \in NameInputs}
      \cup {[BlankRow(m) EXCEPT !.ip = v] : v \in IpInputs}
      \cup {[BlankRow(m) EXCEPT !.policy = v] : v \in PolicyInputs}
      \cup {[BlankRow(m) EXCEPT !.deny = v] : v \in DenyInputs}
      \cup {[BlankRow(m) EXCEPT !.link = v] : v \in LinkInputs}
      \cup {[BlankRow(m) EXCEPT !.mws = v] : v \in MwsInputs}

\* rows carrying several fields
RowUp(m) ==
    [BlankRow(m) EXCEPT !.ip = Some("10.0.0.5"), !.deny = Some(FALSE),
                        !.link = Some("up")]
RowDown(m) ==
    [BlankRow(m) EXCEPT !.name = Some(<<"P", "h", "o", "n", "e">>),
                        !.ip = Some("10.0.0.9"), !.deny = Some(TRUE),
                        !.link = Some("down")]
RowMesh(m) ==
    [BlankRow(m) EXCEPT !.name = Some(<<"T", "V">>),
                        !.policy = Some("Policy0"),
                        !.link = Some("down"),
                        !.mws = Some([link |-> Some("up")])]

MixedRows(m) == {BlankRow(m), RowUp(m), RowDown(m), RowMesh(m)}

\* Vendor rows: every kind of row for the device reported under two
\* spellings, the mixed rows for the second device, and two rows without MAC.
Rows ==
    UNION {SingleFieldRows(m) \cup MixedRows(m) : m \in DeviceMacs}
      \cup UNION {MixedRows(m) : m \in SecondMacs}
      \cup UNION {{BlankRow(m), RowDown(m)} : m \in NoMacs}

RowLists == UNION {[1..n -> Rows] : n \in 0..MaxRows}

-----------------------------------------------------------------------------
(* KeeneticRouter::get_online_clients, the merge of the rows *)

NewClient(mac) ==
    [name |-> None, ip |-> None, mac |-> mac, policy |-> None,
     deny |-> FALSE, raw |-> None]

\* the key the row is filed under
RowMac(item) == to_lowercase(unwrap_or_default(item.mac))

\* `if entry.name.is_none() { entry.name = item.get("name")... }`
fill_name_overwrite(entry, item) == item.name

fill_name(entry, item) == IF is_none(entry.name) THEN item.name ELSE entry.name

\* `entry.ip = item.get("ip")...` without the is_none test
fill_ip_overwrite(entry, item) == item.ip

fill_ip(entry, item) == IF is_none(entry.ip) THEN item.ip ELSE entry.ip

fill_policy(entry, item) ==
    IF is_none(entry.policy) THEN item.policy ELSE entry.policy

\* `if let Some(deny) = item.get("deny").and_then(|v| v.as_bool())`
set_deny_once(entry, item) ==
    IF is_some(item.deny) /\ is_none(entry.raw) THEN unwrap(item.deny)
    ELSE entry.deny

set_deny(entry, item) ==
    IF is_some(item.deny) THEN unwrap(item.deny) ELSE entry.deny

\* `if !item.is_null() { entry.raw = item }`: a row that has a MAC is an object
set_raw_once(entry, item) == IF is_none(entry.raw) THEN Some(item) ELSE entry.raw

set_raw(entry, item) == Some(item)

\* one iteration of `for item in list` on the HashMap `map`
MergeRow(map, item) ==
    LET mac == RowMac(item) IN
    IF mac = <<>> THEN map
    ELSE
      LET entry == IF mac \in DOMAIN map THEN map[mac] ELSE NewClient(mac)
          merged ==
            [name |-> fill_name(entry, item),
             ip |-> fill_ip(entry, item),
             mac |-> entry.mac,
             policy |-> fill_policy(entry, item),
             deny |-> set_deny(entry, item),
             raw |-> set_raw(entry, item)]
      IN [k \in DOMAIN map \cup {mac} |-> IF k = mac THEN merged ELSE map[k]]

RECURSIVE MergeRows(_, _)
MergeRows(map, rows) ==
    IF rows = <<>> THEN map
    ELSE MergeRows(MergeRow(map, Head(rows)), Tail(rows))

EmptyMap == [k \in {} |-> NewClient(k)]

\* the orders map.into_values().collect() can produce
ValueOrders(map) ==
    {s \in [1..Cardinality(DOMAIN map) -> DOMAIN map] :
        \A i, j \in DOMAIN s : i # j => s[i] # s[j]}

-----------------------------------------------------------------------------
(* client_is_online *)
client_is_online(client) ==
    LET raw == client.raw
        link == IF is_some(raw) THEN unwrap(raw).link ELSE None
        mws == IF is_some(raw) THEN unwrap(raw).mws ELSE None
        mws_link == IF is_some(mws) THEN unwrap(mws).link ELSE None
    IN IF link = Some("up") THEN TRUE ELSE mws_link = Some("up")

-----------------------------------------------------------------------------
(* interface_type *)
starts_with(s, p) ==
    /\ Len(s) >= Len(p)
    /\ \A i \in DOMAIN p : s[i] = p[i]

interface_type(name) ==
    LET lname == to_lowercase(name) IN
    IF \/ starts_with(lname, <<"w", "l">>)
       \/ starts_with(lname, <<"w", "l", "a", "n">>)
       \/ starts_with(lname, <<"w", "i", "f", "i">>)
    THEN "Wi-Fi"
    ELSE IF \/ starts_with(lname, <<"e", "n">>)
            \/ starts_with(lname, <<"e", "t", "h">>)
         THEN "Ethernet"
         ELSE "Unknown"

-----------------------------------------------------------------------------
(* String operations used on addresses *)

\* str::trim, for the ASCII space
RECURSIVE trim_start(_)
trim_start(s) ==
    IF s # <<>> /\ Head(s) = " " THEN trim_start(Tail(s)) ELSE s

RECURSIVE trim_end(_)
trim_end(s) ==
    IF s # <<>> /\ s[Len(s)] = " " THEN trim_end(SubSeq(s, 1, Len(s) - 1)) ELSE s

trim(s) == trim_end(trim_start(s))

ends_with(s, p) ==
    /\ Len(s) >= Len(p)
    /\ \A i \in DOMAIN p : s[Len(s) - Len(p) + i] = p[i]

\* str::find: Some(offset of the first occurrence, from 0), or None
find(s, p) ==
    LET hits == {i \in 0..(Len(s) - Len(p)) :
                   \A k \in DOMAIN p : s[i + k] = p[k]}
    IN IF hits = {} THEN None
       ELSE Some(CHOOSE i \in hits : \A j \in hits : i <= j)

\* extract_host
extract_host(address) ==
    LET value0 == trim(address)
        value1 == IF is_some(find(value0, <<":", "/", "/">>))
                  THEN SubSeq(value0, unwrap(find(value0, <<":", "/", "/">>)) + 4,
                              Len(value0))
                  ELSE value0
    IN IF is_some(find(value1, <<"/">>))
       THEN SubSeq(value1, 1, unwrap(find(value1, <<"/">>)))
       ELSE value1

\* KeeneticRouter::new, the base URL
base_url_of(address) ==
    LET base == trim(address) IN
    IF ~starts_with(base, <<"h", "t", "t", "p">>)
    THEN <<"h", "t", "t", "p", ":", "/", "/">> \o
           (IF ends_with(base, <<"/">>) THEN SubSeq(base, 1, Len(base) - 1)
            ELSE base)
    ELSE base

new(address, username, password, name) ==
    [base_url |-> base_url_of(address), username |-> username,
     password |-> password, name |-> name]

-----------------------------------------------------------------------------
(* IPv4 addresses and networks *)

Digits == <<"0", "1", "2", "3", "4", "5", "6", "7", "8", "9">>
DigitOf == [c \in {Digits[i] : i \in DOMAIN Digits} |->
              (CHOOSE i \in DOMAIN Digits : Digits[i] = c) - 1]

\* the parts of s between the dots
RECURSIVE split_dots(_)
split_dots(s) ==
    IF is_none(find(s, <<".">>)) THEN <<s>>
    ELSE LET at == unwrap(find(s, <<".">>)) IN
         <<SubSeq(s, 1, at)>> \o split_dots(SubSeq(s, at + 2, Len(s)))

RECURSIVE decimal(_)
decimal(ds) ==
    IF ds = <<>> THEN 0
    ELSE 10 * decimal(SubSeq(ds, 1, Len(ds) - 1)) + DigitOf[ds[Len(ds)]]

\* an octet in text: one to three digits, no leading zero, at most 255
is_octet(part) ==
    /\ Len(part) \in 1..3
    /\ \A i \in DOMAIN part : part[i] \in DOMAIN DigitOf
    /\ Len(part) > 1 => part[1] # "0"
    /\ decimal(part) <= 255

\* ip.parse::<IpAddr>() for the dotted-quad form: Some(octets) or None
parse_ip(s) ==
    LET parts == split_dots(s) IN
    IF Len(parts) = 4 /\ \A i \in 1..4 : is_octet(parts[i])
    THEN Some([i \in 1..4 |-> decimal(parts[i])])
    ELSE None

RECURSIVE pow2(_)
pow2(n) == IF n = 0 THEN 1 ELSE 2 * pow2(n - 1)

\* the number of bits of octet k that a prefix of length p covers
prefix_bits(p, k) ==
    IF p >= 8 * k THEN 8
    ELSE IF p <= 8 * (k - 1) THEN 0
    ELSE p - 8 * (k - 1)

\* IpNetwork::contains for an IPv4 network
net_contains(net, addr) ==
    \A k \in 1..4 :
      addr[k] \div pow2(8 - prefix_bits(net.prefix, k))
        = net.addr[k] \div pow2(8 - prefix_bits(net.prefix, k))

\* local_networks: the IPv4 networks of every interface, in order
RECURSIVE local_networks(_)
local_networks(ifaces) ==
    IF ifaces = <<>> THEN <<>>
    ELSE SelectSeq(Head(ifaces).ips, LAMBDA ip : ip.v4)
           \o local_networks(Tail(ifaces))

\* ip_in_networks
ip_in_networks(ip, networks) ==
    IF is_some(parse_ip(ip))
    THEN \E i \in DOMAIN networks : net_contains(networks[i], unwrap(parse_ip(ip)))
    ELSE FALSE

-----------------------------------------------------------------------------
(* local_interfaces *)

\* A dotted quad is modelled by its four octets; "N/A" by its characters.
NotApplicable == <<"N", "/", "A">>

\* by_mac after `for client in clients { by_mac.insert(..) }`: a later client
\* replaces an earlier one filed under the same key
by_mac_of(cs) ==
    LET keys == {to_lowercase(cs[i].mac) : i \in DOMAIN cs}
        last(k) == CHOOSE i \in DOMAIN cs :
                      /\ to_lowercase(cs[i].mac) = k
                      /\ \A j \in DOMAIN cs : to_lowercase(cs[j].mac) = k => j <= i
    IN [k \in keys |-> cs[last(k)]]

first_v4(ips) ==
    LET v4s == {i \in DOMAIN ips : ips[i].v4} IN
    IF v4s = {} THEN NotApplicable
    ELSE ips[CHOOSE i \in v4s : \A j \in v4s : i <= j].addr

\* the InterfaceInfo as initialised, before by_mac is looked up
interface_info_unmatched(by_mac, iface) ==
    [name |-> iface.name,
     display_name |-> iface.name,
     mac |-> to_lowercase(unwrap(iface.mac)),
     ip |-> first_v4(iface.ips),
     iface_type |-> interface_type(iface.name),
     online |-> FALSE,
     policy |-> None,
     deny |-> FALSE]

\* the body of `for iface in datalink::interfaces()` once the three `continue`
\* tests have passed
interface_info(by_mac, iface) ==
    LET mac == to_lowercase(unwrap(iface.mac))
        known == mac \in DOMAIN by_mac
    IN [name |-> iface.name,
        display_name |-> IF known /\ is_some(by_mac[mac].name)
                         THEN unwrap(by_mac[mac].name) ELSE iface.name,
        mac |-> mac,
        ip |-> first_v4(iface.ips),
        iface_type |-> interface_type(iface.name),
        online |-> IF known THEN client_is_online(by_mac[mac]) ELSE FALSE,
        policy |-> IF known THEN by_mac[mac].policy ELSE None,
        deny |-> IF known THEN by_mac[mac].deny ELSE FALSE]

\* the tests without the one on the client table
iface_kept_unrestricted(by_mac, iface) ==
    /\ ~iface.loopback
    /\ is_some(iface.mac)

\* whether the loop reaches out.push for this interface
iface_kept(by_mac, iface) ==
    /\ ~iface.loopback
    /\ is_some(iface.mac)
    /\ ~(DOMAIN by_mac # {} /\ to_lowercase(unwrap(iface.mac)) \notin DOMAIN by_mac)

RECURSIVE push_interfaces(_, _)
push_interfaces(by_mac, ifaces) ==
    IF ifaces = <<>> THEN <<>>
    ELSE (IF iface_kept(by_mac, Head(ifaces))
          THEN <<interface_info(by_mac, Head(ifaces))>> ELSE <<>>)
         \o push_interfaces(by_mac, Tail(ifaces))

local_interfaces(cs, ifaces) == push_interfaces(by_mac_of(cs), ifaces)

-----------------------------------------------------------------------------
(* HTTP, as the session sees it *)

MaxCalls == 2

UNAUTHORIZED == 401

is_success(status) == status >= 200 /\ status < 300

\* A response header: absent, present with bytes that are no visible ASCII,
\* or present with a token.
Absent == <<>>
Opaque == <<"bytes">>
Token(t) == <<"text", t>>

\* header_value: headers.get(name).and_then(|v| v.to_str().ok())
header_value(h) == IF Len(h) = 2 THEN Some(h[2]) ELSE None

\* send() failed: no response
TransportError ==
    [failed |-> TRUE, status |-> 0, realm |-> Absent, challenge |-> Absent,
     json |-> None]

\* send() returned a response; json is Some(document) when the body parses
Http(status, realm, challenge, json) ==
    [failed |-> FALSE, status |-> status, realm |-> realm,
     challenge |-> challenge, json |-> json]

Get(endpoint) == [method |-> "GET", endpoint |-> endpoint, body |-> None]
Post(endpoint, body) ==
    [method |-> "POST", endpoint |-> endpoint, body |-> Some(body)]

\* JSON scalars of a request body
JStr(x) == <<"string", x>>
JBool(b) == <<"bool", b>>

\* JSON documents of a response body, to the depth the code reads them
JArray(items) == <<"array", items>>
JObject(fields) == <<"object", fields>>
JNull == <<"null">>
as_array(v) == IF v[1] = "array" THEN Some(v[2]) ELSE None
as_object(v) == IF v[1] = "object" THEN Some(v[2]) ELSE None
json_get(v, key) ==
    IF v[1] = "object" /\ key \in DOMAIN v[2] THEN v[2][key] ELSE None

\* What GET /auth can come back with.  A router that accepts the cookie
\* answers with a success status; otherwise any status and any headers.
AuthGetResponses(cookie_ok) ==
    {TransportError} \cup
    IF cookie_ok
    THEN {Http(200, Absent, Absent, None)}
    ELSE {Http(st, Absent, Absent, None) : st \in {200, 204, 403, 500}}
           \cup {Http(UNAUTHORIZED, r, c, None) :
                    r \in {Absent, Opaque, Token("realm")},
                    c \in {Absent, Opaque, Token("nonce")}}

\* What POST /auth can come back with.
AuthPostResponses ==
    {TransportError} \cup
    {Http(st, Absent, Absent, None) : st \in {200, UNAUTHORIZED, 500}}

\* A response is drawn only for a request that is sent: the POST /auth
\* follows an unauthorized GET that carries both headers, the data request
\* follows a login that returned Ok.
NoResponse == TransportError
post_is_sent(get) ==
    /\ ~get.failed
    /\ get.status = UNAUTHORIZED
    /\ is_some(header_value(get.realm))
    /\ is_some(header_value(get.challenge))
\* GET /auth and POST /auth as one draw
AuthExchanges ==
    [cookie_ok \in BOOLEAN |->
       {ex \in AuthGetResponses(cookie_ok) \X AuthPostResponses :
          post_is_sent(ex[1]) \/ ex[2] = NoResponse}]
Answered(get, post, login_result, resp) ==
    /\ post_is_sent(get) \/ post = NoResponse
    /\ login_result = "Ok" \/ resp = NoResponse

-----------------------------------------------------------------------------
(* KeeneticRouter *)

\* a keyring that answers for every name
get_password_any(name) == Some("secret")

\* get_password(&router.name)
get_password(name) == IF name \in keyring THEN Some("secret") ELSE None

\* The session the calls are made on.
Session ==
    new(<<"1", "9", "2", ".", "1", "6", "8", ".", "1", ".", "1">>,
        "admin", "secret", "home")

md5_hex(username, realm, password) ==
    <<"md5", username, ":", realm, ":", password>>
sha_hex(challenge, md5) == <<"sha256", challenge, md5>>

auth_data(self, realm, challenge) ==
    [login |-> JStr(self.username),
     password |-> JStr(sha_hex(challenge,
                                md5_hex(self.username, realm, self.password)))]

\* the arm of login() taken when GET /auth is neither a transport failure nor
\* unauthorized
initial_status_rejected(status) == "InvalidResponse"

initial_status_auth_failed(status) ==
    IF is_success(status) THEN "Ok" ELSE "AuthFailed"

initial_status(status) ==
    IF is_success(status) THEN "Ok" ELSE "InvalidResponse"

\* what login() returns once POST /auth has been sent
auth_reply_lenient(post) ==
    IF post.failed THEN "AuthFailed"
    ELSE IF is_success(post.status) THEN "Ok"
    ELSE "AuthFailed"

auth_reply(post) ==
    IF post.failed THEN "Request"
    ELSE IF is_success(post.status) THEN "Ok"
    ELSE "AuthFailed"

\* login(): `get` is what GET /auth comes back with and `post` what
\* POST /auth comes back with if it is sent.  Yields the result, the
\* requests sent, their responses and whether the router then accepts the
\* cookie.
login(self, cookie_ok, get, post) ==
    LET out(res, posted) ==
          [result |-> res,
           sent |-> IF posted
                    THEN <<Get("auth"),
                           Post("auth", auth_data(self,
                                  unwrap(header_value(get.realm)),
                                  unwrap(header_value(get.challenge))))>>
                    ELSE <<Get("auth")>>,
           got |-> IF posted THEN <<get, post>> ELSE <<get>>,
           authed |-> IF posted /\ ~post.failed /\ is_success(post.status)
                      THEN TRUE ELSE cookie_ok]
    IN
    IF get.failed THEN out("Request", FALSE)
    ELSE IF get.status = UNAUTHORIZED THEN
        IF is_none(header_value(get.realm)) THEN out("InvalidResponse", FALSE)
        ELSE IF is_none(header_value(get.challenge))
        THEN out("InvalidResponse", FALSE)
        ELSE out(auth_reply(post), TRUE)
    ELSE out(initial_status(get.status), FALSE)

\* keen_request(endpoint, data), given what the request comes back with
keen_request(endpoint, data, resp) ==
    LET req == IF is_some(data) THEN Post(endpoint, unwrap(data))
               ELSE Get(endpoint)
        out(res, v) == [result |-> res, value |-> v, sent |-> <<req>>,
                        got |-> <<resp>>]
    IN
    IF resp.failed THEN out("Request", JNull)
    ELSE IF ~is_success(resp.status) THEN out("InvalidResponse", JNull)
    ELSE IF is_none(resp.json) THEN out("Request", JNull)
    ELSE out("Ok", unwrap(resp.json))

\* the same without the `?` on login()
authenticated_request_unchecked(lg, endpoint, data, resp) ==
    LET rq == keen_request(endpoint, data, resp) IN
    [result |-> rq.result, value |-> rq.value,
     sent |-> lg.sent \o rq.sent, got |-> lg.got \o rq.got]

\* `self.login()?; let data = self.keen_request(endpoint, data)?;`
\* the call's outcome up to the parsed document
authenticated_request(lg, endpoint, data, resp) ==
    IF lg.result # "Ok"
    THEN [result |-> lg.result, value |-> JNull, sent |-> lg.sent,
          got |-> lg.got]
    ELSE LET rq == keen_request(endpoint, data, resp) IN
         [result |-> rq.result, value |-> rq.value,
          sent |-> lg.sent \o rq.sent, got |-> lg.got \o rq.got]

\* get_keendns_urls from the parsed document on
keendns_urls_of(data) ==
    LET items == unwrap_or_default(as_array(data))
        withDomain == SelectSeq(items, LAMBDA item : is_some(item.domain))
    IN [i \in DOMAIN withDomain |-> unwrap(withDomain[i].domain)]

\* get_network_ip from the parsed document on
network_ip_of(data) == json_get(data, "address")

EmptyPolicies == [name \in {} |-> [description |-> None]]

\* get_policies from the parsed document on
policies_of(data) ==
    IF is_some(as_object(data))
    THEN [name \in DOMAIN unwrap(as_object(data)) |->
            [description |-> unwrap(as_object(data))[name].description]]
    ELSE EmptyPolicies

\* get_online_clients from the parsed document on, before the collect
client_map_of(data) == MergeRows(EmptyMap, unwrap_or_default(as_array(data)))

\* the payload with the default policy left out as null
policy_payload_null(mac, policy) ==
    [mac |-> JStr(mac),
     policy |-> IF is_some(policy) THEN JStr(unwrap(policy)) ELSE <<"null">>,
     permit |-> JBool(TRUE),
     schedule |-> JBool(FALSE)]

\* a payload that tells the first mutation from the later ones
policy_payload_numbered(mac, policy) ==
    [mac |-> JStr(mac),
     policy |-> IF is_some(policy) THEN JStr(unwrap(policy)) ELSE JBool(FALSE),
     permit |-> JBool(TRUE),
     schedule |-> JBool(mutations # <<>>)]

\* apply_policy_to_client's payload
policy_payload(mac, policy) ==
    [mac |-> JStr(mac),
     policy |-> IF is_some(policy) THEN JStr(unwrap(policy)) ELSE JBool(FALSE),
     permit |-> JBool(TRUE),
     schedule |-> JBool(FALSE)]

\* set_client_block's payload
block_payload(mac) ==
    [mac |-> JStr(mac), schedule |-> JBool(FALSE), deny |-> JBool(TRUE)]

-----------------------------------------------------------------------------
(* The machine's interfaces, as pnet enumerates them *)
Lo ==
    [name |-> <<"l", "o">>, loopback |-> TRUE,
     mac |-> Some(<<"0", "0", ":", "0", "0">>),
     ips |-> <<[v4 |-> TRUE, addr |-> <<127, 0, 0, 1>>, prefix |-> 8]>>]
Eth0 ==
    [name |-> <<"e", "t", "h", "0">>, loopback |-> FALSE,
     mac |-> Some(<<"a", "a", ":", "0", "1">>),
     ips |-> <<[v4 |-> FALSE, addr |-> <<0, 0, 0, 0>>, prefix |-> 64],
               [v4 |-> TRUE, addr |-> <<10, 0, 0, 5>>, prefix |-> 24]>>]
Tun0 ==
    [name |-> <<"t", "u", "n", "0">>, loopback |-> FALSE,
     mac |-> None,
     ips |-> <<[v4 |-> TRUE, addr |-> <<10, 8, 0, 2>>, prefix |-> 24]>>]
Wlan0 ==
    [name |-> <<"W", "L", "A", "N", "0">>, loopback |-> FALSE,
     mac |-> Some(<<"b", "b", ":", "0", "2">>),
     ips |-> <<>>]
Docker0 ==
    [name |-> <<"d", "o", "c", "k", "e", "r", "0">>, loopback |-> FALSE,
     mac |-> Some(<<"c", "c", ":", "0", "3">>),
     ips |-> <<[v4 |-> TRUE, addr |-> <<172, 17, 0, 1>>, prefix |-> 16]>>]

HostIfaceLists ==
    { <<Lo, Eth0, Tun0, Wlan0, Docker0>>,
      <<Wlan0, Docker0, Eth0>> }

-----------------------------------------------------------------------------
(* Each specification exercises one part; the other parts stay idle. *)

RecIdle ==
    /\ rpc = "idle"
    /\ list = <<>>
    /\ clients = <<>>
    /\ host_ifaces = <<>>
    /\ interfaces = <<>>

\* a call that names no client
NoArgs == [mac |-> <<>>, policy |-> None, blocked |-> FALSE]
Args(mac, policy, blocked) == [mac |-> mac, policy |-> policy, blocked |-> blocked]

ApiIdle ==
    /\ authed = FALSE
    /\ ncalls = 0
    /\ op = "none"
    /\ args = NoArgs
    /\ sent = <<>>
    /\ got = <<>>
    /\ lres = "none"
    /\ result = "none"
    /\ value = JNull

UrlIdle ==
    /\ address_given = <<>>
    /\ session_base_url = None
    /\ request_made = None

NoCommand ==
    [cmd |-> "none", name |-> "", original_name |-> None, result |-> "none"]

\* a router on which no host has been given a policy or blocked
NoHosts == [m \in {} |-> [policy |-> None, deny |-> FALSE]]
NoOverrides == [m \in {} |-> [policy |-> None, deny |-> FALSE]]
NoEvent == [kind |-> "none", mac |-> <<>>, action |-> <<"none">>, result |-> "none"]

TrayIdle ==
    /\ hosts = NoHosts
    /\ mutations = <<>>
    /\ policy_overrides = NoOverrides
    /\ threads = <<>>
    /\ handler = NoEvent
    /\ events = 0
    /\ tray_shown = None

SaveIdle ==
    /\ config = <<>>
    /\ command = NoCommand

CycleIdle ==
    /\ routers = <<>>
    /\ keyring = {}
    /\ cpc = "idle"
    /\ candidates = <<>>
    /\ ci = 0
    /\ calls = <<>>
    /\ policies = EmptyPolicies
    /\ cresult = <<"pending">>
    /\ menu = <<>>

-----------------------------------------------------------------------------
(* The reconciliation pipeline: rows -> clients -> interfaces *)

InitRec ==
    /\ rpc = "fetched"
    /\ list \in RowLists
    /\ clients = <<>>
    /\ host_ifaces = <<>>
    /\ interfaces = <<>>
    /\ ApiIdle
    /\ CycleIdle
    /\ UrlIdle
    /\ SaveIdle
    /\ TrayIdle

\* get_online_clients from the parsed array on: the merge, then the collect
Reconcile ==
    /\ rpc = "fetched"
    /\ LET map == MergeRows(EmptyMap, list) IN
       \E order \in ValueOrders(map) :
           clients' = [i \in DOMAIN order |-> map[order[i]]]
    /\ rpc' = "reconciled"
    /\ UNCHANGED <<list, host_ifaces, interfaces, outsideRec>>

\* local_interfaces(&clients)
Join ==
    /\ rpc = "reconciled"
    /\ \E ifaces \in HostIfaceLists :
          /\ host_ifaces' = ifaces
          /\ interfaces' = local_interfaces(clients, ifaces)
    /\ rpc' = "joined"
    /\ UNCHANGED <<list, clients, outsideRec>>

NextRec == Reconcile \/ Join

SpecRec == InitRec /\ [][NextRec]_vars

\* get_online_clients alone
NextMerge == Reconcile

SpecMerge == InitRec /\ [][NextMerge]_vars

-----------------------------------------------------------------------------
(* Calls on one session: login and the six Router API operations *)

EmptyObject == [k \in {} |-> None]

CertDocs ==
    { JObject(EmptyObject),
      JArray(<<[domain |-> Some("home.keenetic.pro")], [domain |-> None]>>) }
AddressDocs ==
    { JArray(<<>>),
      JObject([address |-> Some("192.168.1.1")]) }
PolicyDocs ==
    { JNull,
      JObject([Policy0 |-> [description |-> Some("Kids")],
               Policy1 |-> [description |-> None]]) }
HostDocs ==
    { JNull,
      JArray(<<RowUp(Some(<<"a", "a", ":", "0", "1">>)),
               RowDown(Some(<<"b", "b", ":", "0", "2">>))>>),
      JArray(<<RowDown(Some(<<"a", "a", ":", "0", "1">>)),
               RowUp(Some(<<"b", "b", ":", "0", "2">>))>>),
      JArray(<<RowUp(Some(<<"d", "d", ":", "0", "4">>))>>) }
AckDocs == { JObject(EmptyObject) }

\* What a data request can come back with.
DataResponses(docs) ==
    {TransportError, Http(500, Absent, Absent, None),
     Http(200, Absent, Absent, None)}
      \cup {Http(200, Absent, Absent, Some(d)) : d \in docs}

ClientMacs == {<<"a", "a", ":", "0", "1">>, <<"b", "b", ":", "0", "2">>}
PolicyNames == {"Policy0", "Policy1"}

InitApi ==
    /\ RecIdle
    /\ ApiIdle
    /\ CycleIdle
    /\ UrlIdle
    /\ SaveIdle
    /\ TrayIdle

\* the call `name` ends: out is its outcome and v the value it yields if Ok
Returns(name, a, lg, out, v) ==
    /\ ncalls' = ncalls + 1
    /\ op' = name
    /\ args' = a
    /\ authed' = lg.authed
    /\ sent' = out.sent
    /\ got' = out.got
    /\ lres' = lg.result
    /\ result' = out.result
    /\ value' = IF out.result = "Ok" THEN v ELSE JNull
    /\ UNCHANGED outsideApi

Login ==
    /\ ncalls < MaxCalls
    /\ \E ex \in AuthExchanges[authed] :
         LET get == ex[1]
             post == ex[2]
             lg == login(Session, authed, get, post) IN
         Answered(get, post, "", NoResponse) /\ Returns("login", NoArgs, lg, lg, JNull)

GetKeendnsUrls ==
    /\ ncalls < MaxCalls
    /\ \E ex \in AuthExchanges[authed],
          resp \in DataResponses(CertDocs) :
         LET get == ex[1]
             post == ex[2]
             lg == login(Session, authed, get, post)
             out == authenticated_request(lg,
                      "rci/ip/http/ssl/acme/list/certificate", None, resp)
         IN Answered(get, post, lg.result, resp) /\ Returns("get_keendns_urls", NoArgs, lg, out, keendns_urls_of(out.value))

GetNetworkIp ==
    /\ ncalls < MaxCalls
    /\ \E ex \in AuthExchanges[authed],
          resp \in DataResponses(AddressDocs) :
         LET get == ex[1]
             post == ex[2]
             lg == login(Session, authed, get, post)
             out == authenticated_request(lg,
                      "rci/sc/interface/Bridge0/ip/address", None, resp)
         IN Answered(get, post, lg.result, resp) /\ Returns("get_network_ip", NoArgs, lg, out, network_ip_of(out.value))

GetPolicies ==
    /\ ncalls < MaxCalls
    /\ \E ex \in AuthExchanges[authed],
          resp \in DataResponses(PolicyDocs) :
         LET get == ex[1]
             post == ex[2]
             lg == login(Session, authed, get, post)
             out == authenticated_request(lg, "rci/show/rc/ip/policy", None, resp)
         IN Answered(get, post, lg.result, resp) /\ Returns("get_policies", NoArgs, lg, out, policies_of(out.value))

GetOnlineClients ==
    /\ ncalls < MaxCalls
    /\ \E ex \in AuthExchanges[authed],
          resp \in DataResponses(HostDocs) :
         LET get == ex[1]
             post == ex[2]
             lg == login(Session, authed, get, post)
             out == authenticated_request(lg, "rci/show/ip/hotspot/host", None, resp)
             map == client_map_of(out.value)
         IN /\ Answered(get, post, lg.result, resp)
            /\ \E order \in ValueOrders(map) :
                 Returns("get_online_clients", NoArgs, lg, out,
                         [i \in DOMAIN order |-> map[order[i]]])

ApplyPolicyToClient ==
    /\ ncalls < MaxCalls
    /\ \E ex \in AuthExchanges[authed],
          resp \in DataResponses(AckDocs), mac \in ClientMacs,
          name \in PolicyNames :
         LET get == ex[1]
             post == ex[2]
             lg == login(Session, authed, get, post)
             out == authenticated_request(lg, "rci/ip/hotspot/host",
                      Some(policy_payload(mac, Some(name))), resp)
         IN Answered(get, post, lg.result, resp) /\ Returns("apply_policy_to_client", Args(mac, Some(name), FALSE), lg, out, JNull)

ApplyDefaultPolicy ==
    /\ ncalls < MaxCalls
    /\ \E ex \in AuthExchanges[authed],
          resp \in DataResponses(AckDocs), mac \in ClientMacs :
         LET get == ex[1]
             post == ex[2]
             lg == login(Session, authed, get, post)
             out == authenticated_request(lg, "rci/ip/hotspot/host",
                      Some(policy_payload(mac, None)), resp)
         IN Answered(get, post, lg.result, resp) /\ Returns("apply_default_policy", Args(mac, None, FALSE), lg, out, JNull)

SetClientBlock ==
    /\ ncalls < MaxCalls
    /\ \E ex \in AuthExchanges[authed],
          resp \in DataResponses(AckDocs), mac \in ClientMacs :
         LET get == ex[1]
             post == ex[2]
             lg == login(Session, authed, get, post)
             out == authenticated_request(lg, "rci/ip/hotspot/host",
                      Some(block_payload(mac)), resp)
         IN Answered(get, post, lg.result, resp) /\ Returns("set_client_block", Args(mac, None, TRUE), lg, out, JNull)

\* apply_policy(mac, policy, blocked, router, address): the method it calls on
\* the session it makes, and that method's payload
apply_policy_call(mac, policy, blocked) ==
    IF blocked THEN block_payload(mac)
    ELSE IF is_some(policy) THEN policy_payload(mac, policy)
    ELSE policy_payload(mac, None)

\* `KeeneticRouter::new(address, &router.login, &password, &router.name)`
ApplySession ==
    new(Session.base_url, Session.username, Session.password, Session.name)

\* the tray's apply_policy on a session of its own
ApplyPolicy ==
    /\ ncalls < MaxCalls
    /\ \E ex \in AuthExchanges[FALSE],
          resp \in DataResponses(AckDocs), mac \in ClientMacs,
          policy \in {None} \cup {Some(name) : name \in PolicyNames},
          blocked \in BOOLEAN :
         LET get == ex[1]
             post == ex[2]
             password == get_password(Session.name)
             lg == login(ApplySession, FALSE, get, post)
             out == authenticated_request(lg, "rci/ip/hotspot/host",
                      Some(apply_policy_call(mac, policy, blocked)), resp)
         IN
         /\ ncalls' = ncalls + 1
         /\ op' = "apply_policy"
         /\ args' = Args(mac, policy, blocked)
         /\ IF is_none(password)
            THEN /\ get = NoResponse /\ post = NoResponse /\ resp = NoResponse
                 /\ sent' = <<>>
                 /\ got' = <<>>
                 /\ lres' = "none"
                 /\ result' = "NoPassword"
            ELSE /\ Answered(get, post, lg.result, resp)
                 /\ sent' = out.sent
                 /\ got' = out.got
                 /\ lres' = lg.result
                 /\ result' = out.result
         /\ value' = JNull
         /\ UNCHANGED <<authed, outsideApi>>

\* the router drops the session (reboot, idle timeout)
Expire ==
    /\ authed
    /\ authed' = FALSE
    /\ UNCHANGED <<ncalls, op, args, sent, got, lres, result,
                   value, outsideApi>>

NextApi ==
    \/ Login
    \/ GetKeendnsUrls
    \/ GetNetworkIp
    \/ GetPolicies
    \/ GetOnlineClients
    \/ ApplyPolicyToClient
    \/ ApplyDefaultPolicy
    \/ SetClientBlock
    \/ Expire

SpecApi == InitApi /\ [][NextApi]_vars

\* The mutation entry points: the session's three methods and the tray's
\* apply_policy, with or without a stored password.
InitApply ==
    /\ RecIdle
    /\ ApiIdle
    /\ UrlIdle
    /\ SaveIdle
    /\ TrayIdle
    /\ routers = <<>>
    /\ keyring \in SUBSET {Session.name}
    /\ cpc = "idle"
    /\ candidates = <<>>
    /\ ci = 0
    /\ calls = <<>>
    /\ policies = EmptyPolicies
    /\ cresult = <<"pending">>
    /\ menu = <<>>

NextApply ==
    \/ ApplyPolicyToClient
    \/ ApplyDefaultPolicy
    \/ SetClientBlock
    \/ ApplyPolicy
    \/ Expire

SpecApply == InitApply /\ [][NextApply]_vars

-----------------------------------------------------------------------------
(* build_active_state: one query cycle *)

MaxRouters == 3

Home ==
    [name |-> "home", address |-> <<"1", "9", "2", ".", "1", "6", "8", ".", "1", ".", "1">>, login |-> "admin",
     network_ip |-> None, keendns_urls |-> None]
Office ==
    [name |-> "office", address |-> <<"h", "t", "t", "p", ":", "/", "/", "o", "f", "f", "i", "c", "e", ".", "e", "x", "a", "m", "p", "l", "e", "/">>,
     login |-> "admin", network_ip |-> Some(<<"1", "0", ".", "0", ".", "0", ".", "1">>),
     keendns_urls |-> None]
Cabin ==
    [name |-> "cabin", address |-> <<"h", "t", "t", "p", ":", "/", "/", "1", "0", ".", "8", ".", "0", ".", "1">>,
     login |-> "root", network_ip |-> Some(<<"1", "9", "2", ".", "1", "6", "8", ".", "8", ".", "1">>),
     keendns_urls |-> None]
Lab ==
    [name |-> "lab", address |-> <<"1", "7", "2", ".", "1", "7", ".", "0", ".", "2", ":", "8", "0", "8", "0">>,
     login |-> "admin", network_ip |-> None, keendns_urls |-> None]

RouterPool == {Home, Office, Cabin, Lab}

\* configured lists: names are unique
RouterLists ==
    UNION {{rs \in [1..n -> RouterPool] :
              \A i, j \in 1..n : i # j => rs[i].name # rs[j].name} :
           n \in 0..MaxRouters}

\* the interfaces of the machine the cycle runs on
Machine == <<Lo, Eth0, Tun0, Wlan0, Docker0>>

\* the body of `for router in routers.iter().cloned()`: the pair pushed, if any
candidate_of(router, networks) ==
    IF is_some(router.network_ip)
         /\ ip_in_networks(unwrap(router.network_ip), networks)
    THEN Some([router |-> router, addr |-> unwrap(router.network_ip)])
    ELSE LET host == extract_host(router.address) IN
         IF host # <<>> /\ ip_in_networks(host, networks)
         THEN Some([router |-> router, addr |-> router.address])
         ELSE None

RECURSIVE candidates_reversed(_, _)
candidates_reversed(rs, networks) ==
    IF rs = <<>> THEN <<>>
    ELSE candidates_reversed(Tail(rs), networks) \o candidate_of(Head(rs), networks)

RECURSIVE candidates_of(_, _)
candidates_of(rs, networks) ==
    IF rs = <<>> THEN <<>>
    ELSE candidate_of(Head(rs), networks) \o candidates_of(Tail(rs), networks)

\* `interfaces.get(0).cloned()` alone
active_iface_first(ifs) == IF ifs # <<>> THEN Some(ifs[1]) ELSE None

\* the active interface: the first online one, else the first, else none
active_iface_of(ifs) ==
    LET online == {i \in DOMAIN ifs : ifs[i].online} IN
    IF online # {} THEN Some(ifs[CHOOSE i \in online : \A j \in online : i <= j])
    ELSE IF ifs # <<>> THEN Some(ifs[1])
    ELSE None

\* the session of the candidate the loop is at
candidate_session ==
    new(candidates[ci].addr, candidates[ci].router.login,
        unwrap(get_password(candidates[ci].router.name)),
        candidates[ci].router.name)

Called_on_candidate(name, lg, res) ==
    [cand |-> ci, router |-> candidates[ci].router.name, op |-> name,
     lres |-> lg.result, result |-> res]

InitCycle ==
    /\ rpc = "idle"
    /\ list = <<>>
    /\ clients = <<>>
    /\ host_ifaces = Machine
    /\ interfaces = <<>>
    /\ ApiIdle
    /\ routers \in RouterLists
    /\ keyring \in SUBSET {routers[i].name : i \in DOMAIN routers}
    /\ cpc = "idle"
    /\ candidates = <<>>
    /\ ci = 0
    /\ calls = <<>>
    /\ policies = EmptyPolicies
    /\ cresult = <<"pending">>
    /\ menu = <<>>
    /\ UrlIdle
    /\ SaveIdle
    /\ TrayIdle

\* lines 131-149: the empty list returns at once, else the candidates are built
BeginCycle ==
    /\ cpc = "idle"
    /\ IF routers = <<>>
       THEN /\ cresult' = <<"None">>
            /\ cpc' = "done"
            /\ UNCHANGED <<candidates, ci>>
       ELSE /\ candidates' = candidates_of(routers, local_networks(host_ifaces))
            /\ ci' = 1
            /\ cpc' = "loop"
            /\ UNCHANGED cresult
    /\ UNCHANGED <<outsideCycle, apiVars, routers, keyring, menu, calls, policies>>

\* lines 151-156 and 182: the loop head, get_password and KeeneticRouter::new
NextCandidate ==
    /\ cpc = "loop"
    /\ IF ci > Len(candidates)
       THEN /\ cresult' = <<"None">>
            /\ cpc' = "done"
            /\ UNCHANGED <<ci, authed>>
       ELSE IF is_none(get_password(candidates[ci].router.name))
       THEN /\ ci' = ci + 1
            /\ UNCHANGED <<cpc, cresult, authed>>
       ELSE /\ cpc' = "login"
            /\ authed' = FALSE
            /\ UNCHANGED <<ci, cresult>>
    /\ UNCHANGED <<outsideCycle, ncalls, op, args, sent, got, lres, result,
                   value, routers, keyring, menu, candidates, calls, policies>>

\* lines 157-159: `if client.login().is_err() { continue; }`
CandidateLogin ==
    /\ cpc = "login"
    /\ LET client == candidate_session IN
       \E ex \in AuthExchanges[authed] :
            LET get == ex[1]
                post == ex[2]
                lg == login(client, authed, get, post) IN
            /\ Answered(get, post, "", NoResponse)
            /\ calls' = Append(calls, Called_on_candidate("login", lg, lg.result))
            /\ authed' = lg.authed
            /\ IF lg.result # "Ok"
               THEN ci' = ci + 1 /\ cpc' = "loop"
               ELSE ci' = ci /\ cpc' = "policies"
    /\ UNCHANGED <<outsideCycle, ncalls, op, args, sent, got, lres, result,
                   value, routers, keyring, menu, candidates, policies, cresult>>

\* line 160: `let policies = client.get_policies()?;`
CandidateGetPolicies ==
    /\ cpc = "policies"
    /\ LET client == candidate_session IN
       \E ex \in AuthExchanges[authed],
             resp \in DataResponses(PolicyDocs) :
            LET get == ex[1]
                post == ex[2]
                lg == login(client, authed, get, post)
                out == authenticated_request(lg, "rci/show/rc/ip/policy", None, resp)
            IN
            /\ Answered(get, post, lg.result, resp)
            /\ calls' = Append(calls,
                           Called_on_candidate("get_policies", lg, out.result))
            /\ authed' = lg.authed
            /\ IF out.result # "Ok"
               THEN /\ cresult' = <<"Err", out.result>>
                    /\ cpc' = "done"
                    /\ UNCHANGED policies
               ELSE /\ policies' = policies_of(out.value)
                    /\ cpc' = "clients"
                    /\ UNCHANGED cresult
    /\ UNCHANGED <<outsideCycle, ncalls, op, args, sent, got, lres, result,
                   value, routers, keyring, menu, candidates, ci>>

\* lines 161-179: get_online_clients()?, local_interfaces, the active interface
CandidateGetClients ==
    /\ cpc = "clients"
    /\ LET client == candidate_session IN
       \E ex \in AuthExchanges[authed],
             resp \in DataResponses(HostDocs) :
            LET get == ex[1]
                post == ex[2]
                lg == login(client, authed, get, post)
                out == authenticated_request(lg, "rci/show/ip/hotspot/host", None, resp)
                map == client_map_of(out.value)
            IN
            /\ Answered(get, post, lg.result, resp)
            /\ calls' = Append(calls,
                           Called_on_candidate("get_online_clients", lg, out.result))
            /\ authed' = lg.authed
            /\ IF out.result # "Ok"
               THEN cresult' = <<"Err", out.result>>
               ELSE \E order \in ValueOrders(map) :
                      LET ifs == local_interfaces([i \in DOMAIN order |-> map[order[i]]],
                                                  host_ifaces)
                      IN cresult' =
                           <<"Some",
                             [router |-> candidates[ci].router,
                              interfaces |-> ifs,
                              policies |-> policies,
                              active_iface |-> active_iface_of(ifs),
                              active_address |-> candidates[ci].addr]>>
    /\ cpc' = "done"
    /\ UNCHANGED <<outsideCycle, ncalls, op, args, sent, got, lres, result,
                   value, routers, keyring, menu, candidates, ci, policies>>

\* Option<&ActiveState> as refresh_tray derives it: `.ok().flatten()`
ok_flatten(res) == IF res[1] = "Some" THEN Some(res[2]) ELSE None

Item(id, mac) == [id |-> id, mac |-> mac]
Separator == Item("separator", <<>>)

\* the interfaces shown as submenus: all but the active one
submenu_items(active) ==
    LET shown == SelectSeq(active.interfaces,
                     LAMBDA iface : ~(is_some(active.active_iface)
                                      /\ iface.mac = unwrap(active.active_iface).mac))
    IN [i \in DOMAIN shown |-> Item("submenu", shown[i].mac)]

\* build_tray_menu once routers are known to be configured
build_tray_menu_of_state(state, has_routers) ==
    IF is_none(state)
    THEN <<Item("info:none", <<>>), Separator, Item("add_router", <<>>),
           Item("settings", <<>>), Item("refresh", <<>>), Item("quit", <<>>)>>
    ELSE LET active == unwrap(state) IN
         (IF is_some(active.active_iface)
          THEN <<Item("iface:header", unwrap(active.active_iface).mac), Separator>>
          ELSE <<>>)
         \o submenu_items(active)
         \o <<Separator, Item("router:name", <<>>), Separator,
              Item("settings", <<>>), Item("refresh", <<>>), Item("quit", <<>>)>>

\* the same menu whatever has_routers is
build_tray_menu_one_absence(state, has_routers) ==
    build_tray_menu_of_state(state, has_routers)

\* build_tray_menu: the items of the menu, an interface section as one item
build_tray_menu(state, has_routers) ==
    IF ~has_routers
    THEN <<Item("info:no_routers", <<>>), Separator, Item("add_router", <<>>),
           Item("quit", <<>>)>>
    ELSE build_tray_menu_of_state(state, has_routers)

\* refresh_tray from line 378 on: the menu is built from the cycle's result
\* and set (no policy override is recorded in this specification)
SetTrayMenu ==
    /\ cpc = "done"
    /\ menu' = build_tray_menu(ok_flatten(cresult), routers # <<>>)
    /\ cpc' = "shown"
    /\ UNCHANGED <<outsideCycle, apiVars, routers, keyring, candidates, ci, calls,
                   policies, cresult>>

\* the router drops the candidate's session between two calls
CandidateSessionExpires ==
    /\ cpc \in {"policies", "clients"}
    /\ authed
    /\ authed' = FALSE
    /\ UNCHANGED <<outsideCycle, ncalls, op, args, sent, got, lres, result,
                   value, cycleVars>>

NextCycle ==
    \/ BeginCycle
    \/ NextCandidate
    \/ CandidateLogin
    \/ CandidateGetPolicies
    \/ CandidateGetClients
    \/ SetTrayMenu
    \/ CandidateSessionExpires

SpecCycle == InitCycle /\ [][NextCycle]_vars

-----------------------------------------------------------------------------
(* KeeneticRouter::new and the URLs of the requests made on the session *)

SchemeInputs ==
    {<<>>, <<"h", "t", "t", "p", ":", "/", "/">>, <<"h", "t", "t", "p", "s", ":", "/", "/">>}
HostInputs ==
    {<<"1", "9", "2", ".", "1", "6", "8", ".", "1", ".", "1">>,
     <<"m", "y", ".", "r", "o", "u", "t", "e", "r", ".", "c", "o", "m">>,
     <<"h", "t", "t", "p", "b", "i", "n", ".", "l", "o", "c", "a", "l">>}
PathInputs == {<<>>, <<"/">>}
PaddingInputs == {<<>>, <<" ">>}

AddressInputs ==
    {pad \o scheme \o host \o path \o pad :
        pad \in PaddingInputs, scheme \in SchemeInputs, host \in HostInputs,
        path \in PathInputs}

Endpoints ==
    {<<"a", "u", "t", "h">>,
     <<"r", "c", "i", "/", "s", "h", "o", "w", "/", "r", "c", "/", "i", "p", "/", "p", "o", "l", "i", "c", "y">>}

\* format!("{}/{}", self.base_url, endpoint)
request_url(base, endpoint) == base \o <<"/">> \o endpoint

InitUrl ==
    /\ RecIdle
    /\ ApiIdle
    /\ CycleIdle
    /\ address_given \in AddressInputs
    /\ session_base_url = None
    /\ request_made = None
    /\ SaveIdle
    /\ TrayIdle

\* KeeneticRouter::new(address_given, ..)
Construct ==
    /\ is_none(session_base_url)
    /\ session_base_url' = Some(new(address_given, "admin", "secret", "home").base_url)
    /\ UNCHANGED <<address_given, request_made, outsideUrl>>

\* login() and keen_request() form the URL of their request
FormUrl ==
    /\ is_some(session_base_url)
    /\ is_none(request_made)
    /\ \E endpoint \in Endpoints :
          request_made' = Some(request_url(unwrap(session_base_url), endpoint))
    /\ UNCHANGED <<address_given, session_base_url, outsideUrl>>

NextUrl == Construct \/ FormUrl

SpecUrl == InitUrl /\ [][NextUrl]_vars

-----------------------------------------------------------------------------
(* The settings commands: save_router and delete_router.  Each holds the   *)
(* lock on AppState.routers from its first line to its return, so each is  *)
(* one step.                                                               *)

SaveNames == {"home", "office"}
SaveAddresses ==
    { <<"1", "0", ".", "0", ".", "0", ".", "1", "/", "/">> }

\* str::trim_end_matches('/')
RECURSIVE trim_end_matches_slash(_)
trim_end_matches_slash(s) ==
    IF s # <<>> /\ s[Len(s)] = "/"
    THEN trim_end_matches_slash(SubSeq(s, 1, Len(s) - 1))
    ELSE s

\* routers.iter().any(|r| r.name == name)
any_named(rs, name) == \E i \in DOMAIN rs : rs[i].name = name

\* routers.iter().position(|r| r.name == original) and routers.remove(pos)
remove_original(rs, original) ==
    IF any_named(rs, original)
    THEN LET pos == CHOOSE i \in DOMAIN rs :
                      /\ rs[i].name = original
                      /\ \A j \in 1..(i - 1) : rs[j].name # original
         IN SubSeq(rs, 1, pos - 1) \o SubSeq(rs, pos + 1, Len(rs))
    ELSE rs

\* routers.retain(|r| r.name != name)
retain_others(rs, name) == SelectSeq(rs, LAMBDA r : r.name # name)

\* the test of lines 436-446 with every name taken for free
name_is_taken_never(rs, name, original_name) == FALSE

\* lines 436-446: the name is refused when another router has it
name_is_taken(rs, name, original_name) ==
    IF is_some(original_name)
    THEN unwrap(original_name) # name /\ any_named(rs, name)
    ELSE any_named(rs, name)

\* what client.login() can return on the new session (line 449)
SaveLoginResults ==
    {login(Session, FALSE, ex[1], ex[2]).result : ex \in AuthExchanges[FALSE]}

\* client.get_network_ip().ok().flatten() (line 453)
SaveNetworkIps ==
    UNION {{LET lg == login(Session, a, ex[1], ex[2])
                out == authenticated_request(lg,
                         "rci/sc/interface/Bridge0/ip/address", None, resp)
            IN IF out.result = "Ok" THEN network_ip_of(out.value) ELSE None :
              ex \in AuthExchanges[a], resp \in DataResponses(AddressDocs)} :
           a \in BOOLEAN}

\* client.get_keendns_urls().ok() (line 454)
SaveKeendnsUrls ==
    UNION {{LET lg == login(Session, a, ex[1], ex[2])
                out == authenticated_request(lg,
                         "rci/ip/http/ssl/acme/list/certificate", None, resp)
            IN IF out.result = "Ok" THEN Some(keendns_urls_of(out.value))
               ELSE None :
              ex \in AuthExchanges[a], resp \in DataResponses(CertDocs)} :
           a \in BOOLEAN}

\* the router the command talks to answers both reads or neither
SaveReads ==
    {rd \in SaveNetworkIps \X SaveKeendnsUrls :
        /\ is_some(rd[1]) <=> is_some(rd[2])
        /\ is_some(rd[2]) => unwrap(rd[2]) # <<>>}

\* the list main() loads: routers.json holds routers with distinct names
SavedLists ==
    UNION {{rs \in [1..n -> {[name |-> nm, address |-> <<"1", "0", ".", "0", ".", "0", ".", "1">>,
                              login |-> "admin", network_ip |-> None,
                              keendns_urls |-> None] : nm \in SaveNames}] :
              \A i, j \in 1..n : i # j => rs[i].name # rs[j].name} :
           n \in 0..2}

InitSave ==
    /\ RecIdle
    /\ ApiIdle
    /\ UrlIdle
    /\ TrayIdle
    /\ routers \in SavedLists
    /\ config = routers
    /\ keyring = {routers[i].name : i \in DOMAIN routers}
    /\ command = NoCommand
    /\ cpc = "idle"
    /\ candidates = <<>>
    /\ ci = 0
    /\ calls = <<>>
    /\ policies = EmptyPolicies
    /\ cresult = <<"pending">>
    /\ menu = <<>>

Command(cmd, name, original_name, res) ==
    [cmd |-> cmd, name |-> name, original_name |-> original_name,
     result |-> res]

\* save_router, lines 422-471.  The keyring and the file system answer as
\* they choose: delete_password ignores a failure, set_password and
\* save_routers return theirs.
SaveRouter ==
    /\ Len(routers) <= MaxRouters
    /\ \E name \in SaveNames,
          address \in SaveAddresses,
          original_name \in {None} \cup {Some(n) : n \in SaveNames},
          login_is_err \in {res # "Ok" : res \in SaveLoginResults},
          read \in SaveReads,
          password_deleted \in BOOLEAN,
          password_set \in BOOLEAN,
          file_written \in BOOLEAN :
         LET trimmed == trim_end_matches_slash(address)
             router_info == [name |-> name, address |-> trimmed,
                             login |-> "admin", network_ip |-> read[1],
                             keendns_urls |-> read[2]]
             removed == IF is_some(original_name)
                        THEN remove_original(routers, unwrap(original_name))
                        ELSE routers
             forgotten == IF is_some(original_name) /\ password_deleted
                          THEN keyring \ {unwrap(original_name)}
                          ELSE keyring
         IN
         IF name_is_taken(routers, name, original_name)
         THEN /\ command' = Command("save_router", name, original_name,
                              "Router with this name already exists")
              /\ UNCHANGED <<routers, keyring, config>>
         ELSE IF login_is_err
         THEN /\ command' = Command("save_router", name, original_name,
                              "Authentication failed")
              /\ UNCHANGED <<routers, keyring, config>>
         ELSE IF ~password_set
         THEN /\ routers' = removed
              /\ keyring' = forgotten
              /\ command' = Command("save_router", name, original_name,
                              "keyring error")
              /\ UNCHANGED config
         ELSE /\ routers' = Append(removed, router_info)
              /\ keyring' = forgotten \cup {name}
              /\ IF file_written
                 THEN /\ config' = routers'
                      /\ command' = Command("save_router", name,
                                      original_name, "Ok")
                 ELSE /\ UNCHANGED config
                      /\ command' = Command("save_router", name,
                                      original_name, "io error")
    /\ UNCHANGED outsideSave

\* delete_router, lines 474-480
DeleteRouter ==
    /\ \E name \in SaveNames,
          password_deleted \in BOOLEAN,
          file_written \in BOOLEAN :
         /\ routers' = retain_others(routers, name)
         /\ keyring' = IF password_deleted THEN keyring \ {name} ELSE keyring
         /\ IF file_written
            THEN /\ config' = routers'
                 /\ command' = Command("delete_router", name, None, "Ok")
            ELSE /\ UNCHANGED config
                 /\ command' = Command("delete_router", name, None, "io error")
    /\ UNCHANGED outsideSave

NextSave ==
    \/ SaveRouter
    \/ DeleteRouter

SpecSave == InitSave /\ [][NextSave]_vars

-----------------------------------------------------------------------------
(* The tray: the event handler (thread 0), the refreshes that             *)
(* schedule_refresh_after spawns, the override map they share, and the     *)
(* router they read and change.                                            *)

MaxEvents == 2

\* mac.replace(':', "")
encode_mac(mac) == SelectSeq(mac, LAMBDA ch : ch # ":")

\* decode_mac: a ':' before every character at an even position but the first
RECURSIVE decode_from(_, _)
decode_from(cleaned, i) ==
    IF cleaned = <<>> THEN <<>>
    ELSE (IF i > 0 /\ i % 2 = 0 THEN <<":">> ELSE <<>>)
           \o <<Head(cleaned)>> \o decode_from(Tail(cleaned), i + 1)
decode_mac(encoded) == decode_from(encode_mac(encoded), 0)

\* policy_label, a policy's description taken to be its name
policy_label(policy, deny) ==
    IF deny THEN "Blocked"
    ELSE IF is_none(policy) THEN "Default"
    ELSE unwrap(policy)

\* The router's side of POST rci/ip/hotspot/host: the host entry of the MAC
\* takes the fields of the body, {policy, permit} or {deny}.
host_of(h, mac) ==
    IF mac \in DOMAIN h THEN h[mac] ELSE [policy |-> None, deny |-> FALSE]

router_accepts(h, body) ==
    LET mac == body.mac[2]
        old == host_of(h, mac)
        entry == IF "deny" \in DOMAIN body
                 THEN [policy |-> old.policy, deny |-> body.deny[2]]
                 ELSE [policy |-> IF body.policy[1] = "string"
                                  THEN Some(body.policy[2]) ELSE None,
                       deny |-> ~body.permit[2]]
    IN [m \in DOMAIN h \cup {mac} |-> IF m = mac THEN entry ELSE h[m]]

\* What this machine's interfaces are found to be by one build_active_state:
\* no active state, the wired interface and its bridge (one MAC) with the
\* wireless one, or the wireless one alone.
WiredMac == <<"a", "a", ":", "0", "1">>
WirelessMac == <<"b", "b", ":", "0", "2">>
ReadViews == {None, Some(<<WiredMac, WiredMac, WirelessMac>>), Some(<<WirelessMac>>)}

\* the ActiveState of a cycle that read the router's hosts `h`: the fields of
\* InterfaceInfo that the overrides and the menu's labels use
active_state_read(view, h) ==
    IF is_none(view) THEN None
    ELSE LET macs == unwrap(view)
             ifs == [i \in DOMAIN macs |->
                       [mac |-> macs[i], policy |-> host_of(h, macs[i]).policy,
                        deny |-> host_of(h, macs[i]).deny, online |-> TRUE]]
         IN Some([interfaces |-> ifs, active_iface |-> active_iface_of(ifs)])

\* the actions of the menu's policy items: policy|<mac>|default,
\* policy|<mac>|blocked, policy|<mac>|set|<name>
MenuActions == {<<"default">>, <<"blocked">>, <<"set", "Policy0">>}

\* lines 536-560: the arguments apply_policy is called with
requested_call(action) ==
    CASE action[1] = "default" -> [policy |-> None, blocked |-> FALSE]
      [] action[1] = "blocked" -> [policy |-> None, blocked |-> TRUE]
      [] action[1] = "set" -> [policy |-> Some(action[2]), blocked |-> FALSE]

\* lines 565-578: the override that stands for the action
override_for(action) ==
    CASE action[1] = "default" -> [policy |-> None, deny |-> FALSE]
      [] action[1] = "blocked" -> [policy |-> None, deny |-> TRUE]
      [] action[1] = "set" -> [policy |-> Some(action[2]), deny |-> FALSE]

\* the override is inserted whatever apply_policy returned
handler_records_always(res) == TRUE

\* line 562: `if result.is_err() { .. } else ..`
handler_records(res) == res = "Ok"

\* What apply_policy can come to: whether it returned Ok, and whether the
\* router answered the mutation with a 2xx status (and so applied it).
ApplyOutcomes ==
    {[ok |-> FALSE, applied |-> FALSE]} \cup
    {LET lg == login(ApplySession, FALSE, d[1][1], d[1][2])
         out == authenticated_request(lg, "rci/ip/hotspot/host",
                  Some(block_payload(WiredMac)), d[2])
     IN [ok |-> out.result = "Ok",
         applied |-> /\ lg.result = "Ok"
                     /\ ~d[2].failed
                     /\ is_success(d[2].status)] :
       d \in {e \in AuthExchanges[FALSE] \X DataResponses(AckDocs) :
                Answered(e[1][1], e[1][2],
                         login(ApplySession, FALSE, e[1][1], e[1][2]).result,
                         e[2])}}

Tids == 0..MaxEvents
Thread(pc, active) == [pc |-> pc, active |-> active]

\* main(): the setup hook runs refresh_tray on the handler's thread
InitTray ==
    /\ RecIdle
    /\ ApiIdle
    /\ CycleIdle
    /\ UrlIdle
    /\ SaveIdle
    /\ hosts = NoHosts
    /\ mutations = <<>>
    /\ policy_overrides = NoOverrides
    /\ threads = [t \in Tids |-> IF t = 0 THEN Thread("read", None)
                                 ELSE Thread("unborn", None)]
    /\ handler = [NoEvent EXCEPT !.kind = "setup"]
    /\ events = 0
    /\ tray_shown = None

\* the interfaces the menu last set has items for
MenuMacs ==
    IF is_none(tray_shown) THEN {}
    ELSE {unwrap(tray_shown).interfaces[i].mac :
            i \in DOMAIN unwrap(tray_shown).interfaces}

\* MenuItemClick with id policy|<mac>|<action>, lines 519-525
PolicyClick ==
    /\ threads[0].pc = "idle"
    /\ events < MaxEvents
    /\ \E m \in MenuMacs, action \in MenuActions :
          handler' = [kind |-> "policy", mac |-> decode_mac(encode_mac(m)),
                      action |-> action, result |-> "none"]
    /\ threads' = [threads EXCEPT ![0] = Thread("build", None)]
    /\ events' = events + 1
    /\ UNCHANGED <<hosts, mutations, policy_overrides, tray_shown, outsideTray>>

\* LeftClick, RightClick, DoubleClick: lines 592-603
TrayClick ==
    /\ threads[0].pc = "idle"
    /\ events < MaxEvents
    /\ handler' = [NoEvent EXCEPT !.kind = "click"]
    /\ threads' = [threads EXCEPT ![0] = Thread("read", None)]
    /\ events' = events + 1
    /\ UNCHANGED <<hosts, mutations, policy_overrides, tray_shown, outsideTray>>

\* MenuItemClick with id refresh: lines 515-518
RefreshClick ==
    /\ threads[0].pc = "idle"
    /\ events < MaxEvents
    /\ handler' = [NoEvent EXCEPT !.kind = "refresh"]
    /\ threads' = [threads EXCEPT ![0] = Thread("read", None)]
    /\ events' = events + 1
    /\ UNCHANGED <<hosts, mutations, policy_overrides, tray_shown, outsideTray>>

\* lines 526-527: the handler's own build_active_state
HandlerBuild ==
    /\ threads[0].pc = "build"
    /\ \E view \in ReadViews :
          threads' = [threads EXCEPT ![0] =
                        IF is_some(view) THEN Thread("apply", None)
                        ELSE Thread("idle", None)]
    /\ UNCHANGED <<hosts, mutations, policy_overrides, handler, events,
                   tray_shown, outsideTray>>

\* lines 528-561: apply_policy on the active router
HandlerApply ==
    /\ threads[0].pc = "apply"
    /\ \E outcome \in ApplyOutcomes :
         LET call == requested_call(handler.action)
             body == apply_policy_call(handler.mac, call.policy, call.blocked)
             after == IF outcome.applied THEN router_accepts(hosts, body)
                      ELSE hosts
         IN
         /\ hosts' = after
         /\ mutations' = Append(mutations,
                [mac |-> handler.mac, action |-> handler.action,
                 body |-> body, ok |-> outcome.ok,
                 applied |-> outcome.applied,
                 before |-> host_of(hosts, handler.mac),
                 after |-> host_of(after, handler.mac)])
         /\ handler' = [handler EXCEPT
                          !.result = IF outcome.ok THEN "Ok" ELSE "Err"]
    /\ threads' = [threads EXCEPT ![0] = Thread("record", None)]
    /\ UNCHANGED <<policy_overrides, events, tray_shown, outsideTray>>

\* lines 562-585: the override is recorded
HandlerRecord ==
    /\ threads[0].pc = "record"
    /\ policy_overrides' =
          IF handler_records(handler.result)
          THEN [m \in DOMAIN policy_overrides \cup {handler.mac} |->
                  IF m = handler.mac THEN override_for(handler.action)
                  ELSE policy_overrides[m]]
          ELSE policy_overrides
    /\ threads' = [threads EXCEPT ![0] = Thread("read", None)]
    /\ UNCHANGED <<hosts, mutations, handler, events, tray_shown, outsideTray>>

\* lines 361-362 with deny left out of the comparison
override_confirmed_by_policy(iface, ov) == iface.policy = ov.policy

\* lines 361-362: the router reports what the override says
override_confirmed(iface, ov) ==
    iface.policy = ov.policy /\ iface.deny = ov.deny

\* lines 358-370: the loop over the interfaces, on the locked map
RECURSIVE apply_overrides(_, _)
apply_overrides(ifs, overrides) ==
    IF ifs = <<>> THEN [interfaces |-> <<>>, overrides |-> overrides]
    ELSE LET iface == Head(ifs) IN
         IF iface.mac \in DOMAIN overrides
         THEN LET ov == overrides[iface.mac] IN
              IF override_confirmed(iface, ov)
              THEN LET less == [m \in DOMAIN overrides \ {iface.mac} |->
                                  overrides[m]]
                       rest == apply_overrides(Tail(ifs), less)
                   IN [rest EXCEPT !.interfaces = <<iface>> \o @]
              ELSE LET rest == apply_overrides(Tail(ifs), overrides)
                   IN [rest EXCEPT !.interfaces =
                         <<[iface EXCEPT !.policy = ov.policy,
                                         !.deny = ov.deny]>> \o @]
         ELSE LET rest == apply_overrides(Tail(ifs), overrides)
              IN [rest EXCEPT !.interfaces = <<iface>> \o @]

\* the active interface left as it was read
override_active_iface_never(active_iface, overrides) == active_iface

\* lines 371-376: the active interface takes the override its MAC still has
override_active_iface(active_iface, overrides) ==
    IF is_some(active_iface) /\ unwrap(active_iface).mac \in DOMAIN overrides
    THEN Some([unwrap(active_iface) EXCEPT
                 !.policy = overrides[unwrap(active_iface).mac].policy,
                 !.deny = overrides[unwrap(active_iface).mac].deny])
    ELSE active_iface

\* refresh_tray, lines 354-355: the routers are read and the cycle is run
Read(t) ==
    /\ threads[t].pc = "read"
    /\ \E view \in ReadViews :
          threads' = [threads EXCEPT ![t] =
                        Thread("overrides", active_state_read(view, hosts))]
    /\ UNCHANGED <<hosts, mutations, policy_overrides, handler, events,
                   tray_shown, outsideTray>>

\* refresh_tray, lines 356-377, while it holds the lock on policy_overrides
ApplyOverrides(t) ==
    /\ threads[t].pc = "overrides"
    /\ IF is_some(threads[t].active)
       THEN LET active == unwrap(threads[t].active)
                looped == apply_overrides(active.interfaces, policy_overrides)
            IN /\ policy_overrides' = looped.overrides
               /\ threads' = [threads EXCEPT ![t] =
                    Thread("set",
                      Some([interfaces |-> looped.interfaces,
                            active_iface |->
                              override_active_iface(active.active_iface,
                                                    looped.overrides)]))]
       ELSE /\ threads' = [threads EXCEPT ![t].pc = "set"]
            /\ UNCHANGED policy_overrides
    /\ UNCHANGED <<hosts, mutations, handler, events, tray_shown, outsideTray>>

\* refresh_tray, lines 378-381: the menu is built and set; after the refresh
\* of a click the handler spawns the delayed one (lines 597-601)
SetMenu(t) ==
    /\ threads[t].pc = "set"
    /\ tray_shown' = threads[t].active
    /\ threads' =
          [u \in Tids |->
             IF u = t
             THEN Thread(IF t = 0 THEN "idle" ELSE "done", None)
             ELSE IF t = 0 /\ handler.kind = "click" /\ u = events
             THEN Thread("read", None)
             ELSE threads[u]]
    /\ UNCHANGED <<hosts, mutations, policy_overrides, handler, events,
                   outsideTray>>

NextTray ==
    \/ PolicyClick
    \/ TrayClick
    \/ RefreshClick
    \/ HandlerBuild
    \/ HandlerApply
    \/ HandlerRecord
    \/ \E t \in Tids : Read(t)
    \/ \E t \in Tids : ApplyOverrides(t)
    \/ \E t \in Tids : SetMenu(t)

SpecTray == InitTray /\ [][NextTray]_vars

-----------------------------------------------------------------------------
(* Properties of the reconciliation *)

IsLowerCase(s) == \A i \in DOMAIN s : s[i] \notin DOMAIN LowerOf

\* a letter paired with itself in the other case
CasePairs ==
    UNION {{<<UpperChars[k], LowerChars[k]>>, <<LowerChars[k], UpperChars[k]>>} :
             k \in DOMAIN UpperChars}

\* the two strings differ at most in the case of their letters
SameIgnoringCase(a, b) ==
    /\ Len(a) = Len(b)
    /\ \A i \in DOMAIN a : a[i] = b[i] \/ <<a[i], b[i]>> \in CasePairs

RowHasMac(r) == is_some(r.mac) /\ Len(unwrap(r.mac)) > 0

\* the rows, by position, that report the device with MAC `mac`
RowsFor(mac) ==
    {i \in DOMAIN list :
        RowHasMac(list[i]) /\ SameIgnoringCase(unwrap(list[i].mac), mac)}

MinOf(S) == CHOOSE i \in S : \A j \in S : i <= j
MaxOf(S) == CHOOSE i \in S : \A j \in S : j <= i

Field(r, f) ==
    CASE f = "name" -> r.name
      [] f = "ip" -> r.ip
      [] f = "policy" -> r.policy
      [] f = "deny" -> r.deny

\* the field of the first row for `mac` that carries it, None if none does
FirstSeen(mac, f) ==
    LET S == {i \in RowsFor(mac) : is_some(Field(list[i], f))} IN
    IF S = {} THEN None ELSE Field(list[MinOf(S)], f)

\* the deny of the last row for `mac` that carries one, FALSE if none does
LastDeny(mac) ==
    LET S == {i \in RowsFor(mac) : is_some(list[i].deny)} IN
    IF S = {} THEN FALSE ELSE unwrap(list[MaxOf(S)].deny)

LastRow(mac) == list[MaxOf(RowsFor(mac))]

RowSaysUp(r) ==
    \/ r.link = Some("up")
    \/ is_some(r.mws) /\ unwrap(r.mws).link = Some("up")

Range(f) == {f[i] : i \in DOMAIN f}

\* C3: after reconciling the rows there is exactly one record per distinct
\* lower-cased non-empty MAC occurring in them, every record's mac is
\* lower-case, and the rows without a MAC (missing or empty) contribute no
\* record and change none: the records are those of the list without them.
C3_OneRecordPerMac ==
    rpc # "fetched" =>
      /\ \A i \in DOMAIN list :
            RowHasMac(list[i]) =>
              Cardinality({j \in DOMAIN clients :
                  SameIgnoringCase(clients[j].mac, unwrap(list[i].mac))}) = 1
      /\ \A j \in DOMAIN clients :
            /\ IsLowerCase(clients[j].mac)
            /\ RowsFor(clients[j].mac) # {}
      /\ Range(clients) =
            Range(MergeRows(EmptyMap, SelectSeq(list, RowHasMac)))

C3_Witness ==
    /\ rpc = "reconciled"
    /\ Len(list) = 2
    /\ RowHasMac(list[1]) /\ RowHasMac(list[2])
    /\ list[1].mac # list[2].mac
    /\ SameIgnoringCase(unwrap(list[1].mac), unwrap(list[2].mac))
    /\ Len(clients) = 1

\* C4: name, ip and policy of a record are those of the first row for its MAC
\* that carries the field, unset only if no row for that MAC carries it.
C4_FirstSeenWins ==
    rpc # "fetched" =>
      \A j \in DOMAIN clients :
        /\ clients[j].name = FirstSeen(clients[j].mac, "name")
        /\ clients[j].ip = FirstSeen(clients[j].mac, "ip")
        /\ clients[j].policy = FirstSeen(clients[j].mac, "policy")

C4_Witness ==
    /\ rpc = "reconciled"
    /\ Len(list) = 2 /\ Len(clients) = 1
    /\ is_some(list[1].ip) /\ is_some(list[2].ip) /\ list[1].ip # list[2].ip
    /\ is_none(list[1].name) /\ is_some(list[2].name)
    /\ clients[1].ip = list[1].ip
    /\ clients[1].name = list[2].name

\* C5: deny of a record is the deny of the last row for its MAC that carries
\* one, false if none does, and the InterfaceInfo built for that MAC has the
\* same deny.
C5_LastDenyWins ==
    /\ rpc # "fetched" =>
         \A j \in DOMAIN clients : clients[j].deny = LastDeny(clients[j].mac)
    /\ rpc = "joined" =>
         \A k \in DOMAIN interfaces :
           RowsFor(interfaces[k].mac) # {} =>
             interfaces[k].deny = LastDeny(interfaces[k].mac)

C5_Witness ==
    /\ rpc = "joined"
    /\ Len(list) = 2 /\ Len(clients) = 1
    /\ list[1].deny = Some(FALSE) /\ list[2].deny = Some(TRUE)
    /\ Len(interfaces) = 1
    /\ interfaces[1].mac = clients[1].mac
    /\ interfaces[1].deny

\* C6: raw of a record is the last row for its MAC, and the device is online
\* exactly when that row has link "up" or mws.link "up", on the record and on
\* the InterfaceInfo built for that MAC.
C6_LastRowDecidesOnline ==
    /\ rpc # "fetched" =>
         \A j \in DOMAIN clients :
           /\ clients[j].raw = Some(LastRow(clients[j].mac))
           /\ client_is_online(clients[j]) = RowSaysUp(LastRow(clients[j].mac))
    /\ rpc = "joined" =>
         \A k \in DOMAIN interfaces :
           interfaces[k].online =
             (/\ RowsFor(interfaces[k].mac) # {}
              /\ RowSaysUp(LastRow(interfaces[k].mac)))

C6_Witness ==
    /\ rpc = "joined"
    /\ Len(list) = 2 /\ Len(clients) = 1
    /\ RowSaysUp(list[1]) /\ ~RowSaysUp(list[2])
    /\ Len(interfaces) = 1
    /\ interfaces[1].mac = clients[1].mac
    /\ ~interfaces[1].online

\* the orderings of the rows of `list`
Orderings ==
    {p \in [DOMAIN list -> DOMAIN list] :
        \A i, j \in DOMAIN list : i # j => p[i] # p[j]}
Reordered(p) == [i \in DOMAIN list |-> list[p[i]]]

\* for the device `mac`, the rows that carry the field all carry one value
FieldAgrees(mac, f) ==
    \A i, j \in RowsFor(mac) :
        is_some(Field(list[i], f)) /\ is_some(Field(list[j], f))
            => Field(list[i], f) = Field(list[j], f)

NoConflict ==
    \A i \in DOMAIN list :
        RowHasMac(list[i]) =>
            \A f \in {"name", "ip", "policy"} :
                FieldAgrees(unwrap(list[i].mac), f)

\* C21: reconciliation is order-insensitive for the first-seen-wins fields
\* when rows do not conflict: if, for each MAC and each of name, ip and
\* policy, all the values carried agree, then every ordering of the same rows
\* gives every MAC the name, ip and policy the reconciled records have.
C21_OrderInsensitive ==
    rpc # "fetched" /\ NoConflict =>
      \A p \in Orderings :
        LET other == MergeRows(EmptyMap, Reordered(p)) IN
        /\ DOMAIN other = {clients[j].mac : j \in DOMAIN clients}
        /\ \A j \in DOMAIN clients :
              /\ other[clients[j].mac].name = clients[j].name
              /\ other[clients[j].mac].ip = clients[j].ip
              /\ other[clients[j].mac].policy = clients[j].policy

\* two different rows for one device under two spellings of its MAC, the
\* second carrying an ip that the first lacks
C21_Witness ==
    /\ rpc = "reconciled"
    /\ Len(list) = 2
    /\ NoConflict
    /\ RowHasMac(list[1]) /\ RowHasMac(list[2])
    /\ list[1].mac # list[2].mac
    /\ Len(clients) = 1
    /\ is_none(list[1].ip) /\ is_some(list[2].ip)
    /\ is_some(list[1].name)
    /\ clients[1].ip = list[2].ip

-----------------------------------------------------------------------------
(* Properties of login and of the Router API operations *)

\* a call was made and it reached its login
Called == op # "none" /\ lres # "none"

IsAuthGet(r) == r.method = "GET" /\ r.endpoint = "auth"
IsAuthPost(r) == r.method = "POST" /\ r.endpoint = "auth"

InitialGetSucceeded == ~got[1].failed /\ is_success(got[1].status)

\* the login of the last call sent POST /auth and it came back with a status
\* that is no success
PostRejected ==
    /\ Len(sent) >= 2
    /\ IsAuthPost(sent[2])
    /\ ~got[2].failed
    /\ ~is_success(got[2].status)

\* C7: whenever the initial GET /auth returns a success status login()
\* returns success and sends no POST; a login() called while the router still
\* accepts the session's cookie sends exactly one request, the GET, unless
\* the transport fails.
C7_ReuseWithoutPost ==
    /\ [](Called /\ InitialGetSucceeded =>
            /\ lres = "Ok"
            /\ \A i \in DOMAIN sent : ~IsAuthPost(sent[i])
            /\ op = "login" => sent = <<Get("auth")>>)
    /\ [][(authed /\ ncalls' = ncalls + 1 /\ op' = "login" /\ ~got'[1].failed) =>
            (sent' = <<Get("auth")>> /\ result' = "Ok")]_vars

C7_Witness ==
    /\ authed
    /\ ncalls = 2
    /\ op = "login"
    /\ sent = <<Get("auth")>>
    /\ result = "Ok"

\* C8: login() returns AuthFailed exactly when the initial GET was
\* unauthorized with both headers present and the POST returned a status
\* that is no success; one invocation sends one GET /auth and at most one
\* POST /auth.
C8_AuthFailedOnlyOnRejectedPost ==
    Called =>
      /\ lres = "AuthFailed" <=>
            (/\ ~got[1].failed
             /\ got[1].status = UNAUTHORIZED
             /\ got[1].realm # Absent
             /\ got[1].challenge # Absent
             /\ PostRejected)
      /\ Cardinality({i \in DOMAIN sent : IsAuthGet(sent[i])}) = 1
      /\ Cardinality({i \in DOMAIN sent : IsAuthPost(sent[i])}) <= 1

C8_Witness ==
    /\ op = "login"
    /\ lres = "AuthFailed"
    /\ Len(sent) = 2
    /\ got[2].status = UNAUTHORIZED

\* C9: login() returns InvalidResponse and sends no POST when the initial
\* GET is unauthorized without the realm or the challenge header, and when
\* it returns a status that is neither success nor unauthorized.
C9_InvalidResponseWithoutPost ==
    (/\ Called
     /\ ~got[1].failed
     /\ \/ /\ got[1].status = UNAUTHORIZED
            /\ (got[1].realm = Absent \/ got[1].challenge = Absent)
        \/ /\ ~is_success(got[1].status)
            /\ got[1].status # UNAUTHORIZED)
    => /\ lres = "InvalidResponse"
       /\ \A i \in DOMAIN sent : sent[i].method # "POST"

C9_Witness ==
    /\ op = "login"
    /\ lres = "InvalidResponse"
    /\ got[1].status = UNAUTHORIZED
    /\ got[1].realm # Absent
    /\ got[1].challenge = Absent
    /\ Len(sent) = 1

ApiOperations ==
    {"get_keendns_urls", "get_network_ip", "get_policies", "get_online_clients",
     "apply_policy_to_client", "apply_default_policy", "set_client_block"}

\* C10: every Router API operation starts with login(); its data request is
\* sent only after that login returned success, and when the login fails the
\* operation returns the login's error and sends no data request.
C10_LoginBeforeData ==
    op \in ApiOperations =>
      /\ IsAuthGet(sent[1])
      /\ \A i \in DOMAIN sent :
            sent[i].endpoint # "auth" =>
              /\ lres = "Ok"
              /\ i = Len(sent)
              /\ \A j \in 1..(i - 1) : sent[j].endpoint = "auth"
      /\ lres = "Ok" => sent[Len(sent)].endpoint # "auth"
      /\ lres # "Ok" =>
            /\ result = lres
            /\ \A i \in DOMAIN sent : sent[i].endpoint = "auth"

C10_Witness ==
    /\ op = "set_client_block"
    /\ lres = "AuthFailed"
    /\ result = "AuthFailed"
    /\ Len(sent) = 2

\* the response to the data request of the last call, when one was sent
DataRequestSent == op \in ApiOperations /\ lres = "Ok"
DataResponse == got[Len(got)]

\* C11: an authenticated request fails with Request only on transport
\* failure, and fails with InvalidResponse both when the HTTP status is not a
\* success and when the response body is not parsable JSON.
C11_ErrorKindOfDataRequest ==
    DataRequestSent =>
      /\ result = "Request" => DataResponse.failed
      /\ ~DataResponse.failed
            /\ (~is_success(DataResponse.status) \/ is_none(DataResponse.json))
            => result = "InvalidResponse"

\* a success status whose body is not JSON is reported as Request
C11_Witness ==
    /\ DataRequestSent
    /\ ~DataResponse.failed
    /\ is_success(DataResponse.status)
    /\ is_none(DataResponse.json)
    /\ result = "Request"

-----------------------------------------------------------------------------
(* Properties of the query cycle *)

\* the configured position of the router a call was made on
Position(name) == CHOOSE k \in DOMAIN routers : routers[k].name = name

\* a configured router one of whose addresses lies on a local network
OnLocalNetwork(r) ==
    LET networks == local_networks(host_ifaces) IN
    \/ is_some(r.network_ip) /\ ip_in_networks(unwrap(r.network_ip), networks)
    \/ ip_in_networks(extract_host(r.address), networks)

LoginSucceeded == {i \in DOMAIN calls : calls[i].lres = "Ok"}
FirstLoginSucceeded == CHOOSE i \in LoginSucceeded : \A j \in LoginSucceeded : i <= j
CallsOn(name) == {i \in DOMAIN calls : calls[i].router = name}

\* every login attempt is against a candidate, attempts follow the configured
\* order, and after a successful login no other router is logged in to
AttemptsInOrder ==
    /\ \A i \in DOMAIN calls :
          \E k \in DOMAIN routers :
             routers[k].name = calls[i].router /\ OnLocalNetwork(routers[k])
    /\ \A i, j \in DOMAIN calls :
          i < j => Position(calls[i].router) <= Position(calls[j].router)
    /\ \A i \in LoginSucceeded, j \in DOMAIN calls :
          i < j => calls[j].router = calls[i].router

C2_FailureSkipsCandidate ==
    /\ cresult[1] # "Err"
    /\ cpc = "done" =>
          \A i \in DOMAIN calls : calls[i].result # "Ok" => ci > calls[i].cand

\* the host of a configured address as the claim reads it: scheme, path and
\* port removed
HostWithoutPort(address) ==
    LET host == extract_host(address) IN
    IF is_some(find(host, <<":">>))
    THEN SubSeq(host, 1, unwrap(find(host, <<":">>)))
    ELSE host

IsLocal(ip) == ip_in_networks(ip, local_networks(host_ifaces))
NetworkIpIsLocal(r) == is_some(r.network_ip) /\ IsLocal(unwrap(r.network_ip))
CandidatesBuilt == cpc # "idle" /\ routers # <<>>
CandidateFor(r) == {i \in DOMAIN candidates : candidates[i].router = r}

\* C12: a configured router is a candidate exactly when its network_ip lies
\* in a local IPv4 subnet, or otherwise when the host of its configured
\* address (scheme, port and path removed) does; the address used is
\* network_ip in the first case and the configured address in the second.
C12_CandidateExactlyWhenLocal ==
    CandidatesBuilt =>
      \A k \in DOMAIN routers :
         LET r == routers[k] IN
         /\ CandidateFor(r) # {}
               <=> (NetworkIpIsLocal(r) \/ IsLocal(HostWithoutPort(r.address)))
         /\ \A i \in CandidateFor(r) :
               candidates[i].addr =
                 IF NetworkIpIsLocal(r) THEN unwrap(r.network_ip) ELSE r.address

\* a router whose address carries a port and whose host is on a local
\* subnet is not among the candidates
C12_Witness ==
    /\ CandidatesBuilt
    /\ \E k \in DOMAIN routers :
          /\ ~NetworkIpIsLocal(routers[k])
          /\ IsLocal(HostWithoutPort(routers[k].address))
          /\ HostWithoutPort(routers[k].address) # extract_host(routers[k].address)
          /\ CandidateFor(routers[k]) = {}

\* what the presentation layer is given for one cycle
MenuIds == {menu[i].id : i \in DOMAIN menu}
NoActiveState == cresult[1] # "Some"

C14_EmptinessIsNotAnError ==
    /\ \A i \in DOMAIN calls : calls[i].router \in keyring
    /\ cpc = "done" =>
          /\ routers = <<>> => cresult = <<"None">>
          /\ (\A k \in DOMAIN routers : ~OnLocalNetwork(routers[k])) =>
                cresult = <<"None">> /\ calls = <<>>
          /\ LoginSucceeded = {} => cresult = <<"None">>

\* two candidates, the first without a stored password, the second's login
\* fails: one login attempt, and the cycle ends with Ok(None)
C14_Witness ==
    /\ cpc = "done"
    /\ Len(candidates) = 2
    /\ candidates[1].router.name \notin keyring
    /\ Len(calls) = 1
    /\ calls[1].router = candidates[2].router.name
    /\ calls[1].result = "AuthFailed"
    /\ cresult = <<"None">>

-----------------------------------------------------------------------------
(* Properties of the interface correlation *)

\* the machine's interfaces that are not loopback and have a MAC, in
\* enumeration order
WithHardwareAddress ==
    SelectSeq(host_ifaces, LAMBDA iface : ~iface.loopback /\ is_some(iface.mac))
ClientMacsKnown == {clients[c].mac : c \in DOMAIN clients}
Joined == rpc = "joined"

\* C15: local_interfaces yields no InterfaceInfo for a loopback interface or
\* for one without a MAC; with a non-empty client table every yielded MAC is
\* the mac of some client record; with an empty table every non-loopback
\* interface that has a MAC is yielded, in enumeration order.
C15_InterfacesRestrictedToClients ==
    Joined =>
      /\ \A i \in DOMAIN interfaces :
            \E k \in DOMAIN host_ifaces :
               /\ host_ifaces[k].name = interfaces[i].name
               /\ ~host_ifaces[k].loopback
               /\ is_some(host_ifaces[k].mac)
      /\ clients # <<>> =>
            \A i \in DOMAIN interfaces : interfaces[i].mac \in ClientMacsKnown
      /\ clients = <<>> =>
            /\ Len(interfaces) = Len(WithHardwareAddress)
            /\ \A i \in DOMAIN interfaces :
                  interfaces[i].name = WithHardwareAddress[i].name

\* a non-empty table that leaves out an interface that has a MAC
C15_Witness ==
    /\ Joined
    /\ clients # <<>>
    /\ interfaces # <<>>
    /\ Len(interfaces) < Len(WithHardwareAddress)
    /\ \E k \in DOMAIN host_ifaces : host_ifaces[k].loopback

ClientsWithMac(mac) == {c \in DOMAIN clients : clients[c].mac = mac}

\* C16: an InterfaceInfo whose MAC has a client record shows the client's
\* name (the interface name when the client has none), the client's policy
\* and deny, and the client's derived online state; one without a record is
\* offline, not denied, without policy, and shows the interface name.
C16_InterfaceTakesClientFields ==
    Joined =>
      \A i \in DOMAIN interfaces :
         LET iface == interfaces[i] IN
         IF ClientsWithMac(iface.mac) # {}
         THEN \A c \in ClientsWithMac(iface.mac) :
                /\ iface.display_name =
                     IF is_some(clients[c].name) THEN unwrap(clients[c].name)
                     ELSE iface.name
                /\ iface.policy = clients[c].policy
                /\ iface.deny = clients[c].deny
                /\ iface.online =
                     (is_some(clients[c].raw) /\ RowSaysUp(unwrap(clients[c].raw)))
         ELSE /\ ~iface.online
              /\ ~iface.deny
              /\ iface.policy = None
              /\ iface.display_name = iface.name

\* an interface shown under its client's name, denied, with a policy, online
C16_Witness ==
    /\ Joined
    /\ \E i \in DOMAIN interfaces :
          /\ ClientsWithMac(interfaces[i].mac) # {}
          /\ interfaces[i].display_name # interfaces[i].name
          /\ interfaces[i].deny
          /\ is_some(interfaces[i].policy)
          /\ interfaces[i].online

-----------------------------------------------------------------------------
(* Properties of the active state *)

HasActiveState == cresult[1] = "Some"
ActiveState == cresult[2]

\* C17: in every active state the active interface is the first interface in
\* list order that is online; when none is online it is the first interface;
\* it is absent only when the list is empty.
C17_ActiveIsFirstOnline ==
    HasActiveState =>
      LET ifs == ActiveState.interfaces
          active == ActiveState.active_iface
      IN
      /\ is_none(active) <=> ifs = <<>>
      /\ is_some(active) =>
            \E i \in DOMAIN ifs :
               /\ ifs[i] = unwrap(active)
               /\ \A j \in 1..(i - 1) : ~ifs[j].online
               /\ ~ifs[i].online =>
                     i = 1 /\ \A j \in DOMAIN ifs : ~ifs[j].online

\* the first interface is offline and the second, online, is the active one
C17_Witness ==
    /\ HasActiveState
    /\ Len(ActiveState.interfaces) = 2
    /\ ~ActiveState.interfaces[1].online
    /\ ActiveState.interfaces[2].online
    /\ ActiveState.active_iface = Some(ActiveState.interfaces[2])

-----------------------------------------------------------------------------
(* Properties of the base URL *)

SchemeSeparator == <<":", "/", "/">>
HasScheme(s) == is_some(find(s, SchemeSeparator))
Constructed == is_some(session_base_url)
BaseUrl == unwrap(session_base_url)
\* what follows the scheme separator
AfterScheme(s) ==
    SubSeq(s, unwrap(find(s, SchemeSeparator)) + 4, Len(s))

\* C18: the base URL of every session carries a scheme (http:// is
\* prepended only when the address has none, an existing scheme is kept) and
\* does not end with a slash, so that a request URL is the base, one "/" and
\* the endpoint, with a single separator.
C18_BaseUrlNormalized ==
    /\ Constructed =>
          /\ HasScheme(BaseUrl)
          /\ HasScheme(trim(address_given)) => starts_with(trim(address_given), BaseUrl)
          /\ ~HasScheme(trim(address_given)) =>
                /\ starts_with(BaseUrl, <<"h", "t", "t", "p", ":", "/", "/">>)
                /\ starts_with(trim(address_given), AfterScheme(BaseUrl))
          /\ ~ends_with(BaseUrl, <<"/">>)
    /\ is_some(request_made) =>
          /\ HasScheme(unwrap(request_made))
          /\ is_none(find(AfterScheme(unwrap(request_made)), <<"/", "/">>))

\* an address with a scheme and a trailing slash keeps the slash, and the
\* request URL has two separators
C18_Witness ==
    /\ address_given = <<"h", "t", "t", "p", ":", "/", "/", "1", "9", "2", ".", "1", "6", "8", ".", "1", ".", "1", "/">>
    /\ session_base_url = Some(address_given)
    /\ request_made = Some(<<"h", "t", "t", "p", ":", "/", "/", "1", "9", "2", ".", "1", "6", "8", ".", "1", ".", "1", "/", "/", "a", "u", "t", "h">>)

-----------------------------------------------------------------------------
(* Properties of the mutations *)

MutationOps ==
    {"apply_policy_to_client", "apply_default_policy", "set_client_block",
     "apply_policy"}
MutationSent == op \in MutationOps /\ lres = "Ok"
Mutation == sent[Len(sent)]

\* the action requested of the last call
BlockRequested ==
    op = "set_client_block" \/ (op = "apply_policy" /\ args.blocked)
PolicyRequested ==
    \/ op = "apply_policy_to_client"
    \/ op = "apply_policy" /\ ~args.blocked /\ is_some(args.policy)
DefaultRequested ==
    \/ op = "apply_default_policy"
    \/ op = "apply_policy" /\ ~args.blocked /\ is_none(args.policy)

\* C19: the mutation sent depends only on the requested action: a block sends
\* {mac, schedule: false, deny: true}; a named policy sends {mac, policy:
\* name, permit: true, schedule: false}; the default sends that body with
\* policy false; apply_policy with blocked set sends the block body whatever
\* its policy argument is.
C19_MutationBodyByAction ==
    MutationSent =>
      /\ Mutation.method = "POST"
      /\ Mutation.endpoint = "rci/ip/hotspot/host"
      /\ BlockRequested =>
            Mutation.body = Some([mac |-> <<"string", args.mac>>,
                                  schedule |-> <<"bool", FALSE>>,
                                  deny |-> <<"bool", TRUE>>])
      /\ PolicyRequested =>
            Mutation.body = Some([mac |-> <<"string", args.mac>>,
                                  policy |-> <<"string", unwrap(args.policy)>>,
                                  permit |-> <<"bool", TRUE>>,
                                  schedule |-> <<"bool", FALSE>>])
      /\ DefaultRequested =>
            Mutation.body = Some([mac |-> <<"string", args.mac>>,
                                  policy |-> <<"bool", FALSE>>,
                                  permit |-> <<"bool", TRUE>>,
                                  schedule |-> <<"bool", FALSE>>])

\* apply_policy asked to block while a policy is named: the block is sent
C19_Witness ==
    /\ op = "apply_policy"
    /\ args.blocked
    /\ is_some(args.policy)
    /\ result = "Ok"
    /\ "deny" \in DOMAIN unwrap(Mutation.body)

-----------------------------------------------------------------------------
(* Properties of the settings commands *)

\* C20: router names are a unique key: after any sequence of save_router
\* (add, rename or edit) and delete_router commands on a list with distinct
\* names, whether they succeed or fail, no two routers of the in-memory list
\* share a name.
C20_NamesUnique ==
    \A i, j \in DOMAIN routers :
        i # j => routers[i].name # routers[j].name

\* a rename onto a name that another router has was refused, and an edit
\* under the router's own name went through
C20_Witness ==
    /\ command.cmd = "save_router"
    /\ is_some(command.original_name)
    /\ any_named(routers, command.name)
    /\ Len(routers) >= 2
    /\ \/ /\ unwrap(command.original_name) # command.name
          /\ command.result = "Router with this name already exists"
       \/ /\ unwrap(command.original_name) = command.name
          /\ command.result = "Ok"

-----------------------------------------------------------------------------
(* Properties of the tray's handler and refreshes *)

\* the i-th mutation and the next are the same successful request for one MAC
IssuedTwice(i) ==
    /\ mutations[i].mac = mutations[i + 1].mac
    /\ mutations[i].action = mutations[i + 1].action
    /\ mutations[i].ok
    /\ mutations[i + 1].ok

ShownEntries(state) ==
    (IF is_some(state.active_iface) THEN {unwrap(state.active_iface)} ELSE {})
      \cup {state.interfaces[i] : i \in
              {j \in DOMAIN state.interfaces :
                 is_none(state.active_iface)
                   \/ state.interfaces[j].mac # unwrap(state.active_iface).mac}}

LabelOf(e) == policy_label(e.policy, e.deny)

\* the mutations for `mac` that succeeded
Succeeded(mac) ==
    {i \in DOMAIN mutations : mutations[i].mac = mac /\ mutations[i].ok}

\* thread t sets the menu in this step
SetsMenu(t) == threads[t].pc = "set" /\ threads'[t].pc # "set"

\* C23: with the event handler and the delayed refreshes running
\* concurrently, once a policy change for a MAC has succeeded no menu set
\* afterwards shows that MAC with its pre-change policy/deny state.
C23_NoStaleMenuAfterChange ==
    [][\A t \in Tids :
         SetsMenu(t) /\ is_some(tray_shown') =>
           \A e \in ShownEntries(unwrap(tray_shown')) :
             Succeeded(e.mac) # {} =>
               LET change == mutations[MaxOf(Succeeded(e.mac))] IN
               LabelOf(change.before) # LabelOf(change.after)
                 => LabelOf(e) # LabelOf(change.before)]_vars

\* thread 0 takes this step while it handles a policy item
HandlerStep == threads'[0] # threads[0] /\ handler.kind = "policy"

\* the overrides this step inserts or replaces
Recorded ==
    {m \in DOMAIN policy_overrides' :
        m \notin DOMAIN policy_overrides
          \/ policy_overrides'[m] # policy_overrides[m]}

\* the overrides this step removes
Removed == DOMAIN policy_overrides \ DOMAIN policy_overrides'

\* an override is recorded only by the handler whose mutation returned
\* success, for the MAC of the item and with the state that was requested
RecordedOnlyOnSuccess ==
    \A m \in Recorded :
        /\ threads[0].pc = "record" /\ threads'[0].pc = "read"
        /\ handler.result = "Ok"
        /\ m = handler.mac
        /\ policy_overrides'[m] = override_for(handler.action)
        /\ \E i \in DOMAIN mutations :
              /\ mutations[i].mac = m
              /\ mutations[i].action = handler.action
              /\ mutations[i].ok

\* no active router was found: the handler ends at its build_active_state
EndsWithoutRouter == threads[0].pc = "build" /\ threads'[0].pc = "idle"

\* C24 as stated: an override is recorded only after the mutation returned
\* success and equals the requested state; when the mutation or its login
\* fails, or no active router is found, the override map is left unchanged.
C24_FailureLeavesOverrides ==
    [][/\ RecordedOnlyOnSuccess
       /\ HandlerStep /\ (handler.result = "Err" \/ EndsWithoutRouter)
            => policy_overrides' = policy_overrides]_vars

\* C24 as amended: an override is recorded only after the mutation returned
\* success and equals the requested state; when the mutation or its login
\* fails the handler records none, and the only change it makes to the map is
\* that the refresh_tray ending it removes overrides the router's report
\* confirms; when no active router is found the map is left unchanged.
C24_FailureRecordsNothing ==
    [][/\ RecordedOnlyOnSuccess
       /\ HandlerStep /\ handler.result = "Err" =>
            /\ Recorded = {}
            /\ \A m \in Removed :
                  /\ threads[0].pc = "overrides"
                  /\ \E i \in DOMAIN unwrap(threads[0].active).interfaces :
                        LET iface == unwrap(threads[0].active).interfaces[i] IN
                        /\ iface.mac = m
                        /\ iface.policy = policy_overrides[m].policy
                        /\ iface.deny = policy_overrides[m].deny
       /\ HandlerStep /\ EndsWithoutRouter
            => policy_overrides' = policy_overrides]_vars

\* the handler has recorded the override of a mutation that changed the host
C24_Witness ==
    /\ handler.kind = "policy"
    /\ handler.result = "Ok"
    /\ threads[0].pc = "read"
    /\ handler.mac \in DOMAIN policy_overrides
    /\ policy_overrides[handler.mac] = override_for(handler.action)
    /\ mutations[Len(mutations)].before # mutations[Len(mutations)].after

\* thread t runs the locked part of refresh_tray in this step
AppliesOverrides(t) ==
    threads[t].pc = "overrides" /\ threads'[t].pc = "set"

\* the (policy, deny) of an interface or of an override
StateOf(r) == <<r.policy, r.deny>>

\* the MACs of the interfaces an active state has
MacsOf(active) ==
    {active.interfaces[i].mac : i \in DOMAIN active.interfaces}

\* the override of MAC m is in the map after the step as it was before
OverrideKept(m) ==
    m \in DOMAIN policy_overrides' /\ policy_overrides'[m] = policy_overrides[m]

\* C25: a refresh with an active state removes the override of an interface
\* the router reports as the override says and shows the reported values,
\* keeps any other override of an interface and shows the override's values;
\* the overrides of MACs not among the interfaces, and all of them when there
\* is no active state, stay as they are.
C25_RefreshSettlesOverrides ==
    [][\A t \in Tids :
         AppliesOverrides(t) =>
           /\ DOMAIN policy_overrides' \subseteq DOMAIN policy_overrides
           /\ IF is_none(threads[t].active)
              THEN /\ policy_overrides' = policy_overrides
                   /\ is_none(threads'[t].active)
              ELSE LET read == unwrap(threads[t].active)
                       shown == unwrap(threads'[t].active)
                   IN /\ DOMAIN shown.interfaces = DOMAIN read.interfaces
                      /\ \A i \in DOMAIN read.interfaces :
                           LET iface == read.interfaces[i]
                               m == iface.mac
                           IN /\ shown.interfaces[i].mac = m
                              /\ IF m \notin DOMAIN policy_overrides
                                 THEN StateOf(shown.interfaces[i]) = StateOf(iface)
                                 ELSE IF StateOf(iface) = StateOf(policy_overrides[m])
                                 THEN /\ m \notin DOMAIN policy_overrides'
                                      /\ StateOf(shown.interfaces[i]) = StateOf(iface)
                                 ELSE /\ OverrideKept(m)
                                      /\ StateOf(shown.interfaces[i])
                                           = StateOf(policy_overrides[m])
                      /\ \A m \in DOMAIN policy_overrides \ MacsOf(read) :
                           OverrideKept(m)]_vars

\* the handler's refresh has kept an override the router does not report:
\* the interface is shown with the override's state
C25_Witness ==
    /\ threads[0].pc = "set"
    /\ is_some(threads[0].active)
    /\ \E i \in DOMAIN unwrap(threads[0].active).interfaces :
          LET iface == unwrap(threads[0].active).interfaces[i] IN
          /\ iface.mac \in DOMAIN policy_overrides
          /\ StateOf(iface) = StateOf(policy_overrides[iface.mac])
          /\ StateOf(host_of(hosts, iface.mac)) # StateOf(iface)

\* a refresh is past its locked part with an active interface
Applied(t) ==
    /\ threads[t].pc = "set"
    /\ is_some(threads[t].active)
    /\ is_some(unwrap(threads[t].active).active_iface)

\* C26: after refresh_tray has applied the overrides, the active interface
\* has the policy and deny of every interface of the list with its MAC.
C26_ActiveIfaceAgrees ==
    \A t \in Tids :
        Applied(t) =>
          LET active == unwrap(threads[t].active)
              active_iface == unwrap(active.active_iface)
          IN \A i \in DOMAIN active.interfaces :
                active.interfaces[i].mac = active_iface.mac
                  => StateOf(active.interfaces[i]) = StateOf(active_iface)

\* the handler's refresh kept the override of the active interface, which
\* the list has twice, and the router reports something else
C26_Witness ==
    /\ Applied(0)
    /\ LET active == unwrap(threads[0].active)
           active_iface == unwrap(active.active_iface)
       IN /\ active_iface.mac \in DOMAIN policy_overrides
          /\ StateOf(active_iface) = StateOf(policy_overrides[active_iface.mac])
          /\ StateOf(host_of(hosts, active_iface.mac)) # StateOf(active_iface)
          /\ Cardinality({i \in DOMAIN active.interfaces :
                            active.interfaces[i].mac = active_iface.mac}) > 1

(***************************************************************************)
(* Properties of save_router's failures                                    *)
(***************************************************************************)

\* C27: a save_router call that returns an error leaves the in-memory
\* router list exactly as it was before the call.
C27_FailedSaveKeepsRouters ==
    [][command'.cmd = "save_router" /\ command'.result # "Ok"
         => routers' = routers]_vars

====
